---- MODULE Spec2Model ----
(***************************************************************************)
(* A model of the atlascore physics core: the job scheduler                *)
(* (src/jobs/JobSystem.cpp), the broadphase detector                       *)
(* (src/physics/CollisionSystem.cpp), the thread placement of the physics  *)
(* pipeline (src/physics/PhysicsPipelineSystem.cpp), the island builder    *)
(* and the solvers (src/physics/Systems.cpp), the integrator               *)
(* (src/physics/PhysicsIntegrationSystem.cpp) and the entity-component     *)
(* world (include/ecs/ComponentStorage.hpp, include/ecs/World.hpp,         *)
(* src/ecs/World.cpp).                                                     *)
(***************************************************************************)
EXTENDS Integers, Sequences, FiniteSets, TLC

(***************************************************************************)
(* Bounds of the model.                                                    *)
(***************************************************************************)
MaxJobs == 2        \* jobs scheduled in one run of the job-system model
NumWorkers == 2     \* worker threads of the pool (hardware_concurrency)
NumClients == 2     \* threads that call Schedule and Wait
MaxWaits == 2       \* Wait calls begun on one handle
MaxCoord == 1       \* box coordinates of the detector's inputs range over -1..MaxCoord
PadCount == 101     \* fixed boxes that follow the two free boxes of a large input
StripLen == 40      \* how many of the fixed boxes form a strip of touching boxes
MaxSubsteps == 2    \* substeps of one PhysicsSystem::Update
NumEntities == 4    \* entities that the contacts of an island builder's input name
MaxContacts == 3    \* contacts of an island builder's input
MaxIterations == 2  \* positionIterations, velocityIterations, constraintIterations
MaxUpdates == 2     \* calls of PhysicsSystem::Update, or of solver entry points, on one world
MaxUpdateJobs == 4  \* jobs scheduled in one run of PhysicsSystem::Update
MaxEntities == 3    \* entities that World::CreateEntity hands out
MaxWorldOps == 2    \* calls made on one ecs::World after it was populated
MaxStorageOps == 5  \* calls made on one ComponentStorage
MaxSystemOps == 6   \* AddSystem and Update calls made on one world
MaxRawLen == 2      \* longest of the vectors given to the raw-array Resolve
MaxJobCount == 5    \* jobCount of a Dispatch call
MaxBatchSize == 3   \* batchSize of a Dispatch call

(***************************************************************************)
(* Constants of the program.                                               *)
(***************************************************************************)
CELL_SIZE == 2                  \* CollisionSystem.cpp: constexpr float CELL_SIZE
ParallelThreshold == 100        \* Detect: jobSystem && n > 100
MinBatch == 16                  \* Detect: max(size_t(16), tasks / (workers * 4))
IntegrateThreshold == 256       \* PhysicsIntegrationSystem::Update: count > 256

Ids == 1..MaxJobs
Workers == 1..NumWorkers
Clients == 1..NumClients

VARIABLES
    \* JobSystem::Impl
    nextId,             \* std::atomic<size_t> nextId
    jobs,               \* std::queue<unique_ptr<IJob>> jobs (the ids of the wrapped jobs)
    states,             \* keys of unordered_map states
    completedFailures,  \* keys of unordered_map completedFailures
    \* Impl::JobState, one per scheduled id
    completed,          \* JobState::completed
    failure,            \* JobState::failure (TRUE: holds an exception)
    stateM,             \* JobState::m: 0 = free, else the client that holds it
    cvWaiters,          \* threads blocked in JobState::cv
    \* the jobs
    body,               \* WrappedJob::inner: what the job's body does
    execCount,          \* how many times the body of each job has run
    issued,             \* handles that Schedule has returned
    \* worker threads
    wpc, wjob, wfail,
    \* client threads
    cpc, ch, cfail, cmode, cvec, crest, cid,
    \* observations of the clients
    wlog,               \* outcomes of the finished Wait(handle) calls per handle
    overlap,            \* a Wait on the handle began while another was in progress
    \* CollisionSystem::Detect
    aabbs, entityIds,   \* the arguments: the boxes and their entity ids
    hasJobs,            \* the jobSystem argument is not null
    entries, tasks,     \* the sorted grid entries and the cell tasks
    taskResults,        \* one result buffer per cell task
    handles,            \* the handles Dispatch collects
    outEvents,          \* the outEvents argument
    serialEvents,       \* outEvents of a Detect call without a job system
    dpc,                \* where the Detect call is
    arrival,            \* the ids of the dispatched jobs in the order their bodies ran
    \* PhysicsSystem::Update
    world,              \* what the world holds: sizes of the component storages
    ppc, substep,       \* the phase of the substep loop and its index
    placed,             \* <<phase, thread>>: which kind of thread has run which work
    \* ecs::World: the component storages, by entity id
    tfStorage, rbStorage, aabbStorage,
    jointStorage,       \* the DistanceJointComponents, in storage order
    \* ResolvePosition / ResolveVelocity and ExecuteIslands
    contacts,           \* the contacts GatherContacts returned
    islands,            \* the islands BuildIslands returned
    ipc,                \* where a call of BuildIslands alone is
    spc,                \* where the solver call is
    solver,             \* "position" or "velocity": which solveIsland runs
    islandHandles,      \* the handles Dispatch collects
    solveLog,           \* <<job, island>> for each run of solveIsland, in time order; job 0 is the caller
    \* PhysicsSystem
    m_events,           \* the events of the current substep
    m_jobSystem,        \* SetJobSystem was called with a job system
    settings,           \* PhysicsSettings, as ApplySettings hands them on
    env,                \* EnvironmentForces
    upc, usub,          \* where Update is, and its loop index i
    dt,                 \* the dt argument of the Update in progress
    ucalls,             \* calls of the public solver and Update entry points so far
    created,            \* the storages as the entities were created
    atCall,             \* the storages when the call in progress was made
    phases,             \* the phases the Update in progress has run, in time order
    \* JobSystem::Impl and ~JobSystem
    running,            \* std::atomic<bool> running
    tpc,                \* where the thread that destroys the JobSystem is
    joined,             \* the workers that ~JobSystem has joined
    atStop,             \* the ids in the queue when ~JobSystem began
    \* JobSystem::Dispatch
    dispatchCall,       \* the Dispatch call in progress: its arguments, its i and its handles
    \* the raw-array Resolve
    outOfRange,         \* an element outside transforms or bodies was read or written
    \* ecs::World
    m_nextEntity,       \* EntityId m_nextEntity
    m_entities,         \* std::vector<EntityId> m_entities
    m_systems,          \* std::vector<unique_ptr<ISystem>> m_systems (their names)
    added,              \* the arguments of the AddSystem calls, in call order
    m_componentStores,  \* the ComponentStorage of each registered component type
    shadow,             \* per type, the value each entity was last given and not since removed
    called,             \* <<system, dt>> for each ISystem::Update call of the last World::Update
    viewed,             \* the ids the callback of the last View got, in time order
    m_broadphaseAABBs, m_broadphaseIds,   \* PhysicsSystem: the broadphase input
    wops,               \* calls made on the world so far
    lastCall,           \* the last call made on the world or the storage, with its arguments
    storesAtCall        \* m_componentStores when that call was made

implVars == <<nextId, jobs, states, completedFailures>>
stateVars == <<completed, failure, stateM, cvWaiters>>
jobVars == <<body, execCount, issued>>
workerVars == <<wpc, wjob, wfail>>
clientVars == <<cpc, ch, cfail, cmode, cvec, crest, cid>>
obsVars == <<wlog, overlap>>
jsVars == <<implVars, stateVars, jobVars, workerVars, clientVars, obsVars>>

detVars == <<aabbs, entityIds, hasJobs, entries, tasks, taskResults, handles,
             outEvents, serialEvents, dpc, arrival>>
pipeVars == <<world, ppc, substep, placed>>

ecsVars == <<tfStorage, rbStorage, aabbStorage, jointStorage>>
solveVars == <<contacts, islands, ipc, spc, solver, islandHandles, solveLog>>
updVars == <<m_events, m_jobSystem, settings, env, upc, usub, dt, ucalls, created, atCall, phases>>
physVars == <<ecsVars, solveVars, updVars>>

dtorVars == <<running, tpc, joined, atStop>>
worldVars == <<m_nextEntity, m_entities, m_systems, added, m_componentStores, shadow, called,
               viewed, m_broadphaseAABBs, m_broadphaseIds, wops,
               lastCall, storesAtCall>>
extVars == <<dtorVars, dispatchCall, outOfRange, worldVars>>

vars == <<jsVars, detVars, pipeVars, physVars, extVars>>

(***************************************************************************)
(* CollisionSystem: the pure parts of Detect. Coordinates are integers;    *)
(* a cell is CELL_SIZE wide.                                               *)
(***************************************************************************)
Min(a, b) == IF a < b THEN a ELSE b
Max(a, b) == IF a > b THEN a ELSE b

\* JobSystem::WorkerCount(): the size of the pool.
WorkerCount == NumWorkers

\* GetCellCoords: floor(x / CELL_SIZE), floor(y / CELL_SIZE).
GetCellCoords(x, y) == <<x \div CELL_SIZE, y \div CELL_SIZE>>

\* static_cast<uint32_t>(v) of an int, as <<top bit, low 31 bits>>.
U32(v) == IF v >= 0 THEN <<0, v>> ELSE <<1, (v + 2147483647) + 1>>

\* PackKey: (uint64(x) << 32) | uint32(y). The 64-bit key is kept as the four
\* parts <<x top bit, x low bits, y top bit, y low bits>>; the order of the
\* unsigned keys is the lexicographic order of the parts.
PackKey(x, y) == U32(x) \o U32(y)
KeyLess(k1, k2) == \E i \in 1..4 : k1[i] < k2[i] /\ \A j \in 1..(i - 1) : k1[j] = k2[j]

\* CellEntry::operator<: by key, then by index.
EntryLess(l, r) == IF l.key # r.key THEN KeyLess(l.key, r.key) ELSE l.index < r.index

\* The overlap test of the pair loop (and of GetManifold), edges included.
Overlaps(a, b) ==
    ~(a.maxX < b.minX \/ a.minX > b.maxX \/ a.maxY < b.minY \/ a.minY > b.maxY)

\* GetManifold: no hit without overlap; else the axis of least overlap, the
\* normal pointing from a to b by the sums of the box edges.
GetManifold(a, b) ==
    IF ~Overlaps(a, b)
      THEN [hit |-> FALSE, normalX |-> 0, normalY |-> 0, penetration |-> 0]
      ELSE LET x_overlap == Min(a.maxX, b.maxX) - Max(a.minX, b.minX)
               y_overlap == Min(a.maxY, b.maxY) - Max(a.minY, b.minY)
           IN IF x_overlap < y_overlap
                THEN [hit |-> TRUE,
                      normalX |-> IF (a.minX + a.maxX) < (b.minX + b.maxX) THEN 1 ELSE -1,
                      normalY |-> 0, penetration |-> x_overlap]
                ELSE [hit |-> TRUE, normalX |-> 0,
                      normalY |-> IF (a.minY + a.maxY) < (b.minY + b.maxY) THEN 1 ELSE -1,
                      penetration |-> y_overlap]

\* The CollisionEvent pushed for the boxes of the indices idxA and idxB.
MakeEvent(boxes, ids, idxA, idxB) ==
    LET mf == GetManifold(boxes[idxA + 1], boxes[idxB + 1])
    IN [entityA |-> ids[idxA + 1], entityB |-> ids[idxB + 1],
        normalX |-> mf.normalX, normalY |-> mf.normalY, penetration |-> mf.penetration]

\* The entries of box i: for x in minX..maxX, for y in minY..maxY (cells).
BoxEntries(box, i) ==
    LET lo == GetCellCoords(box.minX, box.minY)
        hi == GetCellCoords(box.maxX, box.maxY)
        nx == Max(0, hi[1] - lo[1] + 1)
        ny == Max(0, hi[2] - lo[2] + 1)
    IN [k \in 1..(nx * ny) |->
            [key |-> PackKey(lo[1] + ((k - 1) \div ny), lo[2] + ((k - 1) % ny)),
             index |-> i]]

\* 1. Build Grid Entries: the entries of the boxes first..last, in index order.
RECURSIVE GridEntriesRange(_, _, _)
GridEntriesRange(boxes, first, last) ==
    IF first > last THEN <<>>
    ELSE IF first = last THEN BoxEntries(boxes[first + 1], first)
    ELSE LET mid == (first + last) \div 2
         IN GridEntriesRange(boxes, first, mid) \o GridEntriesRange(boxes, mid + 1, last)
GridEntries(boxes) == GridEntriesRange(boxes, 0, Len(boxes) - 1)

\* 2. std::sort(entries) by operator<. No two entries are equal, so the
\* sorted sequence is unique.
SortEntries(s) == SortSeq(s, EntryLess)

\* 3. Identify Tasks: the maximal runs of entries with one key, in order,
\* those of more than one entry.
GridTasks(es) ==
    LET n == Len(es)
        starts == SelectSeq([k \in 1..n |-> k - 1],
                            LAMBDA i : i = 0 \/ es[i + 1].key # es[i].key)
        stop(r) == IF r < Len(starts) THEN starts[r + 1] ELSE n
        runs == [r \in 1..Len(starts) |->
                    [key |-> es[starts[r] + 1].key, start |-> starts[r],
                     count |-> stop(r) - starts[r]]]
    IN SelectSeq(runs, LAMBDA t : t.count > 1)

\* for i in 0..count-1, for j in i+1..count-1: the pairs in loop order.
RECURSIVE PairRows(_, _, _)
PairRows(count, first, last) ==
    IF first > last THEN <<>>
    ELSE IF first = last THEN [j \in 1..(count - 1 - first) |-> <<first, first + j>>]
    ELSE LET mid == (first + last) \div 2
         IN PairRows(count, first, mid) \o PairRows(count, mid + 1, last)
PairsOf(count) == PairRows(count, 0, count - 2)

\* Primary cell check: the cell of (interMinX, interMinY) is the task's cell.
\* (One faulty variant takes the min corner of the union of the boxes; the other
\* lets every shared cell report the pair.)
InterMinOfUnion(boxA, boxB) == <<Min(boxA.minX, boxB.minX), Min(boxA.minY, boxB.minY)>>
InterMin(boxA, boxB) == <<Max(boxA.minX, boxB.minX), Max(boxA.minY, boxB.minY)>>

IsPrimaryCellAlways(boxA, boxB, key) == TRUE
IsPrimaryCell(boxA, boxB, key) ==
    LET c == GetCellCoords(InterMin(boxA, boxB)[1], InterMin(boxA, boxB)[2])
    IN PackKey(c[1], c[2]) = key

\* The body of the dispatched lambda for one cell task: the events it pushes
\* to the task's own result buffer.
CellTaskResult(task, es, boxes, ids) ==
    LET idx(p) == es[task.start + p + 1].index
        hits == SelectSeq(PairsOf(task.count), LAMBDA p :
                    /\ Overlaps(boxes[idx(p[1]) + 1], boxes[idx(p[2]) + 1])
                    /\ IsPrimaryCell(boxes[idx(p[1]) + 1], boxes[idx(p[2]) + 1], task.key)
                    /\ GetManifold(boxes[idx(p[1]) + 1], boxes[idx(p[2]) + 1]).hit)
    IN [k \in 1..Len(hits) |-> MakeEvent(boxes, ids, idx(hits[k][1]), idx(hits[k][2]))]

\* The order in which the result buffers are merged: the order of the tasks.
\* (A faulty variant merges them in the order in which the jobs finished.)
RECURSIVE TasksOfJobs(_)
TasksOfJobs(js) ==
    IF js = <<>> THEN <<>>
    ELSE [k \in 1..(body[Head(js)].last - body[Head(js)].first) |-> body[Head(js)].first + k]
         \o TasksOfJobs(Tail(js))
ArrivalOrder(rs) == TasksOfJobs(arrival)
TaskOrder(rs) == [t \in 1..Len(rs) |-> t]

\* 5. Merge Results: outEvents.insert(end, res) for each buffer in order.
RECURSIVE MergeRange(_, _, _, _)
MergeRange(rs, order, first, last) ==
    IF first > last THEN <<>>
    ELSE IF first = last THEN rs[order[first]]
    ELSE LET mid == (first + last) \div 2
         IN MergeRange(rs, order, first, mid) \o MergeRange(rs, order, mid + 1, last)
MergeResults(rs) == MergeRange(rs, TaskOrder(rs), 1, Len(TaskOrder(rs)))

\* Serial O(N^2) execution.
SerialDetect(boxes, ids) ==
    LET hits == SelectSeq(PairsOf(Len(boxes)), LAMBDA p :
                    GetManifold(boxes[p[1] + 1], boxes[p[2] + 1]).hit)
    IN [k \in 1..Len(hits) |-> MakeEvent(boxes, ids, hits[k][1], hits[k][2])]

\* batchSize of Detect's Dispatch.
DetectBatchSize == Max(MinBatch, Len(tasks) \div (WorkerCount * 4))

\* handles.push_back(ScheduleFunction(...)) in Dispatch: the caller of
\* Schedule keeps the handle it is given.
ReturnHandle(id) ==
    IF dpc = "dispatch"
      THEN /\ handles' = Append(handles, id)
           /\ UNCHANGED <<aabbs, entityIds, hasJobs, entries, tasks, taskResults,
                          outEvents, serialEvents, dpc, arrival>>
      ELSE UNCHANGED detVars

\* FunctionJob::Execute runs the function it holds: a client's function, or
\* the lambda of Dispatch, which runs Detect's lambda on the tasks
\* first..last-1, each pushing to its own buffer.
RunBody(id) ==
    IF body[id].kind = "cells"
      THEN /\ taskResults' = [t \in DOMAIN taskResults |->
                 IF body[id].first < t /\ t <= body[id].last
                   THEN taskResults[t] \o CellTaskResult(tasks[t], entries, aabbs, entityIds)
                   ELSE taskResults[t]]
           /\ arrival' = Append(arrival, id)
           /\ UNCHANGED <<aabbs, entityIds, hasJobs, entries, tasks, handles,
                          outEvents, serialEvents, dpc>>
      ELSE UNCHANGED detVars

(***************************************************************************)
(* float: a value is kept as a whole number of 1/Scale units, each         *)
(* operation rounding its exact result to the nearest such number; three   *)
(* reserved numbers stand for NaN, +Inf and -Inf, with the IEEE 754 rules  *)
(* for them.                                                               *)
(***************************************************************************)
Scale == 4
NaN == 3000000
PosInf == 1000000
NegInf == 0 - 1000000
SqrtLimit == 30000

\* The float of the literal n.0f.
F(n) == n * Scale

\* std::isfinite
IsFinite(a) == a # NaN /\ a # PosInf /\ a # NegInf

Sign(a) == IF a > 0 THEN 1 ELSE IF a < 0 THEN 0 - 1 ELSE 0
Abs(a) == IF a < 0 THEN 0 - a ELSE a

\* The whole number nearest to n / d (d # 0), halves away from zero.
RoundDiv(n, d) == Sign(n) * Sign(d) * ((2 * Abs(n) + Abs(d)) \div (2 * Abs(d)))

\* The float of the literal n / d, d > 0: the nearest number of the model
\* that is not zero unless the literal is.
Lit(n, d) ==
    IF n = 0 THEN 0
    ELSE IF RoundDiv(n * Scale, d) = 0 THEN Sign(n)
    ELSE RoundDiv(n * Scale, d)

\* The floor of the square root of n >= 0, sought between lo and hi.
RECURSIVE ISqrtIn(_, _, _)
ISqrtIn(n, lo, hi) ==
    IF lo >= hi THEN lo
    ELSE LET mid == (lo + hi + 1) \div 2
         IN IF mid * mid <= n THEN ISqrtIn(n, mid, hi) ELSE ISqrtIn(n, lo, mid - 1)
ISqrt(n) == ISqrtIn(n, 0, IF n < SqrtLimit THEN n ELSE SqrtLimit)

\* unary minus
FNeg(a) == IF a = NaN THEN NaN ELSE 0 - a

\* a + b, a - b
FAdd(a, b) ==
    IF a = NaN \/ b = NaN THEN NaN
    ELSE IF ~IsFinite(a) THEN (IF ~IsFinite(b) /\ b # a THEN NaN ELSE a)
    ELSE IF ~IsFinite(b) THEN b
    ELSE a + b
FSub(a, b) == FAdd(a, FNeg(b))

\* a * b: Inf * 0 is NaN.
FMul(a, b) ==
    IF a = NaN \/ b = NaN THEN NaN
    ELSE IF ~IsFinite(a) \/ ~IsFinite(b)
      THEN (IF a = 0 \/ b = 0 THEN NaN
            ELSE IF Sign(a) * Sign(b) > 0 THEN PosInf ELSE NegInf)
    ELSE RoundDiv(a * b, Scale)

\* a / b: 0 / 0 and Inf / Inf are NaN, x / 0 is an infinity of the sign of x.
FDiv(a, b) ==
    IF a = NaN \/ b = NaN THEN NaN
    ELSE IF ~IsFinite(a)
      THEN (IF ~IsFinite(b) THEN NaN
            ELSE IF Sign(a) * (IF b < 0 THEN 0 - 1 ELSE 1) > 0 THEN PosInf ELSE NegInf)
    ELSE IF ~IsFinite(b) THEN 0
    ELSE IF b = 0 THEN (IF a = 0 THEN NaN ELSE IF a > 0 THEN PosInf ELSE NegInf)
    ELSE RoundDiv(a * Scale, b)

\* The comparisons: every comparison with NaN is false.
FLt(a, b) == a # NaN /\ b # NaN /\ a < b
FLe(a, b) == a # NaN /\ b # NaN /\ a <= b
FGt(a, b) == FLt(b, a)
FEq(a, b) == a # NaN /\ b # NaN /\ a = b

\* std::max(a, b) is (a < b) ? b : a; std::min(a, b) is (b < a) ? b : a.
FMax(a, b) == IF FLt(a, b) THEN b ELSE a
FMin(a, b) == IF FLt(b, a) THEN b ELSE a

\* std::abs, std::sqrt
FAbs(a) == IF a = NaN THEN NaN ELSE Abs(a)
FSqrt(a) ==
    IF a = NaN \/ a < 0 THEN NaN
    ELSE IF a = PosInf THEN PosInf
    ELSE LET n == a * Scale
             r == ISqrt(n)
         IN IF (r + 1) * (r + 1) - n < n - r * r THEN r + 1 ELSE r

(***************************************************************************)
(* Components.hpp and Systems.hpp: the components and the settings.        *)
(***************************************************************************)
\* RigidBodyComponent{}: the default member initialisers.
DefaultBody ==
    [vx |-> 0, vy |-> 0, lastX |-> 0, lastY |-> 0, lastAngle |-> 0,
     mass |-> F(1), invMass |-> F(1), inertia |-> F(1), invInertia |-> F(1),
     restitution |-> Lit(1, 2), friction |-> Lit(1, 2),
     angularVelocity |-> 0, torque |-> 0, angularFriction |-> Lit(1, 2), angularDrag |-> 0]

\* A body made static the way the scenarios do: mass = 0, invMass = 0.
StaticBody == [DefaultBody EXCEPT !.mass = 0, !.invMass = 0]

\* TransformComponent{x, y, 0} and the AABB of half extents hw, hh around it.
TransformAt(x, y) == [x |-> x, y |-> y, rotation |-> 0]
BoxAt(x, y, hw, hh) == [minX |-> x - hw, minY |-> y - hh, maxX |-> x + hw, maxY |-> y + hh]

\* PhysicsSettings{} with the iteration counts it, and EnvironmentForces.
SettingsOf(substeps, iterations) ==
    [substeps |-> substeps, positionIterations |-> iterations,
     velocityIterations |-> iterations, constraintIterations |-> iterations,
     penetrationSlop |-> Lit(1, 100), correctionPercent |-> Lit(1, 5),
     maxCorrection |-> Lit(1, 5)]
DefaultSettings == SettingsOf(1, 1)
DefaultEnv == [gravityY |-> 0, windX |-> 0, windY |-> 0, drag |-> 0]

NoWorld == [tf |-> <<>>, rb |-> <<>>, aabb |-> <<>>]

\* The entities of a storage in storage order: the order of their creation,
\* which is the order of their ids.
StorageOrder(st) ==
    [k \in 1..Cardinality(DOMAIN st) |->
        CHOOSE e \in DOMAIN st : Cardinality({x \in DOMAIN st : x < e}) = k - 1]

\* The events Detect reports for the boxes of the world, without a job
\* system or with at most ParallelThreshold boxes; the normals, whole
\* numbers in GetManifold, as floats.
EventsOf(aabb) ==
    LET ids == StorageOrder(aabb)
        evs == SerialDetect([k \in 1..Len(ids) |-> aabb[ids[k]]], ids)
    IN [k \in 1..Len(evs) |->
           [evs[k] EXCEPT !.normalX = F(@), !.normalY = F(@)]]

(***************************************************************************)
(* Systems.cpp: IslandBuilder and BuildIslands. A builder is the record of *)
(* its three members; parent and rank are indexed from 0 in the code and   *)
(* from 1 here. An island is the sequence of the positions, in contacts,   *)
(* of the contacts it points to.                                           *)
(***************************************************************************)
NewBuilder == [indices |-> <<>>, parent |-> <<>>, rank |-> <<>>]

\* IslandBuilder::Add: the index of id, a new one if id has none.
Add(b, id) ==
    IF id \in DOMAIN b.indices
      THEN [builder |-> b, idx |-> b.indices[id]]
      ELSE LET idx == Len(b.parent)
           IN [builder |-> [indices |-> [x \in DOMAIN b.indices \cup {id} |->
                                            IF x = id THEN idx ELSE b.indices[x]],
                            parent |-> Append(b.parent, idx),
                            rank |-> Append(b.rank, 0)],
               idx |-> idx]

\* IslandBuilder::Find: the root of idx, every node on the way re-parented
\* to it.
RECURSIVE Find(_, _)
Find(parent, idx) ==
    IF parent[idx + 1] # idx
      THEN LET r == Find(parent, parent[idx + 1])
           IN [parent |-> [r.parent EXCEPT ![idx + 1] = r.root], root |-> r.root]
      ELSE [parent |-> parent, root |-> idx]

\* IslandBuilder::Unite: union by rank of the sets of a and c. (A faulty
\* variant adds the two ids and links nothing.)
UniteAddsOnly(b, a, c) == Add(Add(b, a).builder, c).builder
Unite(b, a, c) ==
    LET first == Add(b, a)
        second == Add(first.builder, c)
        fa == Find(second.builder.parent, first.idx)
        fb == Find(fa.parent, second.idx)
        rank == second.builder.rank
        swap == rank[fa.root + 1] < rank[fb.root + 1]
        ra == IF swap THEN fb.root ELSE fa.root
        rb == IF swap THEN fa.root ELSE fb.root
    IN IF fa.root = fb.root
         THEN [second.builder EXCEPT !.parent = fb.parent]
         ELSE [indices |-> second.builder.indices,
               parent |-> [fb.parent EXCEPT ![rb + 1] = ra],
               rank |-> IF rank[ra + 1] = rank[rb + 1]
                          THEN [rank EXCEPT ![ra + 1] = @ + 1] ELSE rank]

\* IslandBuilder::Root: -1 for an id never added, else Find of its index.
\* (A faulty variant returns the index itself.)
RootIsOwnIndex(b, id) ==
    [builder |-> b, root |-> IF id \in DOMAIN b.indices THEN b.indices[id] ELSE 0 - 1]
Root(b, id) ==
    IF id \notin DOMAIN b.indices
      THEN [builder |-> b, root |-> 0 - 1]
      ELSE LET f == Find(b.parent, b.indices[id])
           IN [builder |-> [b EXCEPT !.parent = f.parent], root |-> f.root]

\* BuildIslands, first loop: builder.Unite(c.entityA, c.entityB) for the
\* contacts k..Len(cs).
RECURSIVE UniteAll(_, _, _)
UniteAll(b, cs, k) ==
    IF k > Len(cs) THEN b
    ELSE UniteAll(Unite(b, cs[k].entityA, cs[k].entityB), cs, k + 1)

\* BuildIslands, second loop, for the contacts k..Len(cs): the island of a
\* contact is the one its entityA's root was first given.
RECURSIVE GroupByRoot(_, _, _, _, _)
GroupByRoot(b, rootToIsland, isl, cs, k) ==
    IF k > Len(cs) THEN isl
    ELSE LET r == Root(b, cs[k].entityA)
         IN IF r.root < 0 THEN GroupByRoot(r.builder, rootToIsland, isl, cs, k + 1)
            ELSE IF r.root \in DOMAIN rootToIsland
              THEN GroupByRoot(r.builder, rootToIsland,
                               [isl EXCEPT ![rootToIsland[r.root]] = Append(@, k)], cs, k + 1)
              ELSE GroupByRoot(r.builder,
                               [x \in DOMAIN rootToIsland \cup {r.root} |->
                                   IF x = r.root THEN Len(isl) + 1 ELSE rootToIsland[x]],
                               Append(isl, <<k>>), cs, k + 1)

BuildIslands(cs) ==
    IF cs = <<>> THEN <<>>
    ELSE GroupByRoot(UniteAll(NewBuilder, cs, 1), <<>>, <<>>, cs, 1)

(***************************************************************************)
(* Systems.cpp: the contacts and the two island solvers. The component     *)
(* storages are functions from entity ids; a pointer to a component is the *)
(* id of its entity. The worlds of the model hold no circle collider.      *)
(***************************************************************************)
\* EstimateLever(nullptr, aabb): half the diagonal of the box, 0 without box.
EstimateLever(aabb, id) ==
    IF id \notin DOMAIN aabb THEN 0
    ELSE LET w == FSub(aabb[id].maxX, aabb[id].minX)
             h == FSub(aabb[id].maxY, aabb[id].minY)
         IN FMul(Lit(1, 2), FSqrt(FMax(0, FAdd(FMul(w, w), FMul(h, h)))))

\* The Contact that GatherContacts fills for an event.
ContactOf(ev, rb, aabb) ==
    [entityA |-> ev.entityA, entityB |-> ev.entityB,
     leverA |-> EstimateLever(aabb, ev.entityA),
     leverB |-> EstimateLever(aabb, ev.entityB),
     nx |-> ev.normalX, ny |-> ev.normalY, pen |-> ev.penetration,
     restitution |-> FMin(rb[ev.entityA].restitution, rb[ev.entityB].restitution),
     friction |-> FSqrt(FAdd(FMul(rb[ev.entityA].friction, rb[ev.entityA].friction),
                             FMul(rb[ev.entityB].friction, rb[ev.entityB].friction))),
     invMassSum |-> FAdd(rb[ev.entityA].invMass, rb[ev.entityB].invMass)]

\* GatherContacts keeps the event: both entities have a body and a
\* transform, the penetration is not <= 0 and the inverse masses do not sum
\* to 0.
Gathered(ev, tf, rb) ==
    /\ {ev.entityA, ev.entityB} \subseteq (DOMAIN rb \cap DOMAIN tf)
    /\ ~FLe(ev.penetration, 0)
    /\ ~FEq(FAdd(rb[ev.entityA].invMass, rb[ev.entityB].invMass), 0)

GatherContacts(events, tf, rb, aabb) ==
    LET kept == SelectSeq(events, LAMBDA ev : Gathered(ev, tf, rb))
    IN [k \in 1..Len(kept) |-> ContactOf(kept[k], rb, aabb)]

\* ResolvePosition, solveIsland, the body of the loops for one contact.
SolvePositionContact(tf, rb, c, s) ==
    LET raw == FMul(FDiv(FMax(FSub(c.pen, s.penetrationSlop), 0), c.invMassSum),
                    s.correctionPercent)
        correction == IF FGt(raw, s.maxCorrection) THEN s.maxCorrection ELSE raw
        cx == FMul(correction, c.nx)
        cy == FMul(correction, c.ny)
        t1 == [tf EXCEPT ![c.entityA].x = FSub(@, FMul(cx, rb[c.entityA].invMass)),
                         ![c.entityA].y = FSub(@, FMul(cy, rb[c.entityA].invMass))]
    IN [t1 EXCEPT ![c.entityB].x = FAdd(@, FMul(cx, rb[c.entityB].invMass)),
                  ![c.entityB].y = FAdd(@, FMul(cy, rb[c.entityB].invMass))]

\* bA->v -= impulse * bA->invMass; bB->v += impulse * bB->invMass.
ApplyImpulse(rb, a, b, ix, iy) ==
    LET r1 == [rb EXCEPT ![a].vx = FSub(@, FMul(ix, rb[a].invMass)),
                         ![a].vy = FSub(@, FMul(iy, rb[a].invMass))]
    IN [r1 EXCEPT ![b].vx = FAdd(@, FMul(ix, r1[b].invMass)),
                  ![b].vy = FAdd(@, FMul(iy, r1[b].invMass))]

\* ResolveVelocity, solveIsland, lines 470-477: the friction impulse turns
\* a body with a lever and a positive invInertia.
ApplySpin(rb, c, jt) ==
    LET r1 == IF FGt(c.leverA, 0) /\ FGt(rb[c.entityA].invInertia, 0)
                THEN [rb EXCEPT ![c.entityA].angularVelocity =
                         FSub(@, FMul(FMul(jt, c.leverA), rb[c.entityA].invInertia))]
                ELSE rb
    IN IF FGt(c.leverB, 0) /\ FGt(r1[c.entityB].invInertia, 0)
         THEN [r1 EXCEPT ![c.entityB].angularVelocity =
                  FAdd(@, FMul(FMul(jt, c.leverB), r1[c.entityB].invInertia))]
         ELSE r1

\* ResolveVelocity, solveIsland, the body of the loops for one contact: the
\* normal impulse if the bodies approach, then friction and spin.
SolveVelocityContact(rb, c) ==
    LET a == c.entityA
        b == c.entityB
        velAlongNormal == FAdd(FMul(FSub(rb[b].vx, rb[a].vx), c.nx),
                               FMul(FSub(rb[b].vy, rb[a].vy), c.ny))
        approach == FLt(velAlongNormal, 0)
        j == IF approach
               THEN FDiv(FMul(FNeg(FAdd(F(1), c.restitution)), velAlongNormal), c.invMassSum)
               ELSE 0
        r1 == IF approach THEN ApplyImpulse(rb, a, b, FMul(j, c.nx), FMul(j, c.ny)) ELSE rb
        tx == FNeg(c.ny)
        ty == c.nx
        velAlongTangent == FAdd(FMul(FSub(r1[b].vx, r1[a].vx), tx),
                                FMul(FSub(r1[b].vy, r1[a].vy), ty))
        jtRaw == FDiv(FNeg(velAlongTangent), c.invMassSum)
        maxJt == IF FGt(j, 0) THEN FMul(c.friction, j) ELSE FMul(c.friction, Lit(1, 10))
        jt == IF FGt(FAbs(jtRaw), maxJt)
                THEN (IF FGt(jtRaw, 0) THEN maxJt ELSE FNeg(maxJt))
                ELSE jtRaw
    IN IF FGt(c.pen, Lit(0 - 5, 100))
         THEN ApplySpin(ApplyImpulse(r1, a, b, FMul(jt, tx), FMul(jt, ty)), c, jt)
         ELSE r1

\* One pass of a solveIsland lambda over one contact, on the transforms and
\* the bodies st.
SolveContact(st, c, kind, s) ==
    IF kind = "position"
      THEN [tf |-> SolvePositionContact(st.tf, st.rb, c, s), rb |-> st.rb]
      ELSE [tf |-> st.tf, rb |-> SolveVelocityContact(st.rb, c)]

\* std::max(1, m_settings.positionIterations) or velocityIterations.
Iterations(kind, s) ==
    IF kind = "position" THEN Max(1, s.positionIterations) ELSE Max(1, s.velocityIterations)

\* solveIsland(islandContacts): the iterations over the island's contacts,
\* from the n-th contact visit on.
RECURSIVE SolveIslandFrom(_, _, _, _, _, _)
SolveIslandFrom(st, island, cs, kind, s, n) ==
    IF n >= Iterations(kind, s) * Len(island) THEN st
    ELSE SolveIslandFrom(SolveContact(st, cs[island[(n % Len(island)) + 1]], kind, s),
                         island, cs, kind, s, n + 1)
SolveIsland(st, island, cs, kind, s) == SolveIslandFrom(st, island, cs, kind, s, 0)

\* for (i = start; i < end; ++i) fn(islands[i]): the islands first+1..last.
RECURSIVE SolveIslandRange(_, _, _, _, _, _, _)
SolveIslandRange(st, isl, cs, kind, s, first, last) ==
    IF first >= last THEN st
    ELSE SolveIslandRange(SolveIsland(st, isl[first + 1], cs, kind, s),
                          isl, cs, kind, s, first + 1, last)

\* ExecuteIslands without Dispatch: every island in turn on the caller.
SolveSequentially(st, isl, cs, kind, s) == SolveIslandRange(st, isl, cs, kind, s, 0, Len(isl))

\* ResolvePosition / ResolveVelocity with a null job system: the whole call.
ResolveOn(st, events, aabb, kind, s) ==
    LET cs == GatherContacts(events, st.tf, st.rb, aabb)
    IN IF cs = <<>> THEN st ELSE SolveSequentially(st, BuildIslands(cs), cs, kind, s)

\* ExecuteIslands: batch = max(1, islands.size() / (workerCount * 2)).
\* (A faulty variant leaves out the max.)
ExecuteIslandsBatchNoMax == Len(islands) \div (Max(1, WorkerCount) * 2)
ExecuteIslandsBatch == Max(1, Len(islands) \div (Max(1, WorkerCount) * 2))

\* Dispatch: end = std::min(i + batchSize, jobCount). (A faulty variant
\* lets a chunk run one past its end.)
DispatchEndOverlapping(i, batchSize, jobCount) == Min(i + batchSize + 1, jobCount)
DispatchEnd(i, batchSize, jobCount) == Min(i + batchSize, jobCount)

\* handles.push_back(ScheduleFunction(...)) in the Dispatch of
\* ExecuteIslands.
ReturnIslandHandle(id) ==
    IF spc = "dispatch"
      THEN /\ islandHandles' = Append(islandHandles, id)
           /\ UNCHANGED <<contacts, islands, ipc, spc, solver, solveLog>>
           /\ UNCHANGED <<ecsVars, updVars>>
      ELSE UNCHANGED physVars

\* The entries of solveLog for the islands first+1..last solved by job id.
LogOf(id, first, last) == [k \in 1..(last - first) |-> <<id, first + k>>]

\* The lambda of ExecuteIslands' Dispatch, run by FunctionJob::Execute:
\* fn(islands[i]) for i in [start, end), on the transforms and bodies of the
\* world.
RunIslandBody(id) ==
    IF body[id].kind = "islands"
      THEN LET st == SolveIslandRange([tf |-> tfStorage, rb |-> rbStorage], islands,
                                      contacts, solver, settings,
                                      body[id].first, body[id].last)
           IN /\ tfStorage' = st.tf
              /\ rbStorage' = st.rb
              /\ solveLog' = solveLog \o LogOf(id, body[id].first, body[id].last)
              /\ UNCHANGED <<aabbStorage, jointStorage>>
              /\ UNCHANGED <<contacts, islands, ipc, spc, solver, islandHandles>>
              /\ UNCHANGED updVars
      ELSE UNCHANGED physVars

(***************************************************************************)
(* PhysicsIntegrationSystem.cpp, PhysicsPipelineSystem.cpp and the joint   *)
(* and raw-array solvers of Systems.cpp, as functions of the transforms    *)
(* and bodies st = [tf, rb].                                               *)
(***************************************************************************)
\* EnsureDerivedMass
EnsureDerivedMass(b) ==
    IF FLe(b.mass, 0)
      THEN [b EXCEPT !.invMass = 0, !.inertia = 0, !.invInertia = 0]
      ELSE LET b1 == IF FLe(b.invMass, 0) THEN [b EXCEPT !.invMass = FDiv(F(1), b.mass)] ELSE b
               b2 == IF FLe(b1.inertia, 0)
                       THEN [b1 EXCEPT !.inertia = FMul(Lit(1, 2), b1.mass)] ELSE b1
           IN IF FLe(b2.invInertia, 0) /\ FGt(b2.inertia, 0)
                THEN [b2 EXCEPT !.invInertia = FDiv(F(1), b2.inertia)] ELSE b2

\* The clamp of the speed to maxVel = 50: the velocity <<vx, vy>> after it.
ClampVelocity(vx, vy) ==
    LET vSq == FAdd(FMul(vx, vx), FMul(vy, vy))
        v == FSqrt(vSq)
    IN IF FGt(vSq, FMul(F(50), F(50)))
         THEN <<FMul(FDiv(vx, v), F(50)), FMul(FDiv(vy, v), F(50))>>
         ELSE <<vx, vy>>

\* integrateRange, the body of the loop for the entity id of the body
\* storage: a body without transform is skipped; the mass of a body with
\* invMass == 0 and mass > 0 is derived; a body whose invMass is then 0
\* only loses its angular velocity and torque; any other body is moved.
IntegrateOne(st, id, subDt, e) ==
    IF id \notin DOMAIN st.tf THEN st
    ELSE LET b0 == st.rb[id]
             b == IF FEq(b0.invMass, 0) /\ FGt(b0.mass, 0) THEN EnsureDerivedMass(b0) ELSE b0
         IN IF FEq(b.invMass, 0)
              THEN [st EXCEPT !.rb[id] = [b EXCEPT !.angularVelocity = 0, !.torque = 0]]
              ELSE LET t == st.tf[id]
                       ax == FSub(e.windX, FMul(e.drag, b.vx))
                       ay == FSub(FAdd(e.gravityY, e.windY), FMul(e.drag, b.vy))
                       v == ClampVelocity(FAdd(b.vx, FMul(ax, subDt)),
                                          FAdd(b.vy, FMul(ay, subDt)))
                       invInertia == IF FEq(b.invInertia, 0) /\ FGt(b.inertia, 0)
                                       THEN FDiv(F(1), b.inertia) ELSE b.invInertia
                       angularAccel == FSub(FMul(b.torque, invInertia),
                                            FMul(b.angularDrag, b.angularVelocity))
                       damping == FMax(0, FSub(F(1), FMul(b.angularFriction, subDt)))
                       w == IF FGt(invInertia, 0)
                              THEN FMul(FAdd(b.angularVelocity, FMul(angularAccel, subDt)), damping)
                              ELSE 0
                   IN [tf |-> [st.tf EXCEPT ![id] =
                                 [x |-> FAdd(t.x, FMul(v[1], subDt)),
                                  y |-> FAdd(t.y, FMul(v[2], subDt)),
                                  rotation |-> IF FGt(invInertia, 0)
                                                 THEN FAdd(t.rotation, FMul(w, subDt))
                                                 ELSE t.rotation]],
                       rb |-> [st.rb EXCEPT ![id] =
                                 [b EXCEPT !.lastX = t.x, !.lastY = t.y,
                                           !.lastAngle = t.rotation,
                                           !.vx = v[1], !.vy = v[2],
                                           !.invInertia = invInertia,
                                           !.angularVelocity = w, !.torque = 0]]]

\* PhysicsIntegrationSystem::Update: integrateRange over the bodies from
\* the k-th of the storage on. (With at most IntegrateThreshold bodies it
\* runs on the caller.)
RECURSIVE IntegrateFrom(_, _, _, _, _)
IntegrateFrom(st, order, subDt, e, k) ==
    IF k > Len(order) THEN st
    ELSE IntegrateFrom(IntegrateOne(st, order[k], subDt, e), order, subDt, e, k + 1)
Integrate(st, subDt, e) == IntegrateFrom(st, StorageOrder(st.rb), subDt, e, 1)

\* SyncDynamicAabbsToTransforms: the box of every entity that has a body of
\* invMass other than 0 and a transform is centred on the transform, its
\* half extents kept.
SyncDynamicAabbsToTransforms(aabb, st) ==
    [id \in DOMAIN aabb |->
        IF id \notin DOMAIN st.rb \/ id \notin DOMAIN st.tf THEN aabb[id]
        ELSE IF FEq(st.rb[id].invMass, 0) THEN aabb[id]
        ELSE LET halfW == FMax(0, FMul(FSub(aabb[id].maxX, aabb[id].minX), Lit(1, 2)))
                 halfH == FMax(0, FMul(FSub(aabb[id].maxY, aabb[id].minY), Lit(1, 2)))
             IN [minX |-> FSub(st.tf[id].x, halfW), maxX |-> FAdd(st.tf[id].x, halfW),
                 minY |-> FSub(st.tf[id].y, halfH), maxY |-> FAdd(st.tf[id].y, halfH)]]

\* ConstraintResolutionSystem::Resolve, first loop: the joints whose
\* entities have transforms and bodies and whose inverse masses do not sum
\* to 0.
Constrains(joint, st) ==
    /\ {joint.entityA, joint.entityB} \subseteq (DOMAIN st.tf \cap DOMAIN st.rb)
    /\ ~FEq(FAdd(st.rb[joint.entityA].invMass, st.rb[joint.entityB].invMass), 0)

\* ConstraintResolutionSystem::Resolve, the body of the second loop for
\* one joint.
SolveJoint(st, joint, dtSafe) ==
    LET a == joint.entityA
        b == joint.entityB
        invMassSum == FAdd(st.rb[a].invMass, st.rb[b].invMass)
        dx == FSub(st.tf[b].x, st.tf[a].x)
        dy == FSub(st.tf[b].y, st.tf[a].y)
        dist == FSqrt(FAdd(FMul(dx, dx), FMul(dy, dy)))
        diff == FSub(dist, joint.targetDistance)
        complianceTerm == IF FGt(joint.compliance, 0)
                            THEN FDiv(joint.compliance, FMul(dtSafe, dtSafe)) ELSE 0
        denom == FAdd(invMassSum, complianceTerm)
        correction == FDiv(diff, denom)
        px == FMul(FDiv(dx, dist), correction)
        py == FMul(FDiv(dy, dist), correction)
        t1 == [st.tf EXCEPT ![a].x = FAdd(@, FMul(px, st.rb[a].invMass)),
                            ![a].y = FAdd(@, FMul(py, st.rb[a].invMass))]
    IN IF FLt(dist, Lit(1, 10000)) \/ FLe(denom, 0) THEN st
       ELSE [st EXCEPT !.tf = [t1 EXCEPT ![b].x = FSub(@, FMul(px, st.rb[b].invMass)),
                                          ![b].y = FSub(@, FMul(py, st.rb[b].invMass))]]

\* The iterations over the constraints, from the n-th visit on.
RECURSIVE SolveJointsFrom(_, _, _, _, _)
SolveJointsFrom(st, cons, dtSafe, iterations, n) ==
    IF cons = <<>> \/ n >= iterations * Len(cons) THEN st
    ELSE SolveJointsFrom(SolveJoint(st, cons[(n % Len(cons)) + 1], dtSafe),
                         cons, dtSafe, iterations, n + 1)

\* ConstraintResolutionSystem::Resolve(world, dt)
ResolveConstraints(st, joints, subDt, s) ==
    SolveJointsFrom(st, SelectSeq(joints, LAMBDA j : Constrains(j, st)),
                    FMax(subDt, Lit(1, 10000)), Max(1, s.constraintIterations), 0)

\* UpdateVelocities, the body of the loop: the velocities of a body with a
\* transform and invMass other than 0 are rebuilt from the position delta.
ReconstructOne(st, id, subDt) ==
    IF id \notin DOMAIN st.tf \/ FEq(st.rb[id].invMass, 0) THEN st
    ELSE LET b == st.rb[id]
             v == ClampVelocity(FDiv(FSub(st.tf[id].x, b.lastX), subDt),
                                FDiv(FSub(st.tf[id].y, b.lastY), subDt))
         IN [st EXCEPT !.rb[id] =
                [b EXCEPT !.vx = v[1], !.vy = v[2],
                          !.angularVelocity =
                              FDiv(FSub(st.tf[id].rotation, b.lastAngle), subDt)]]

RECURSIVE ReconstructFrom(_, _, _, _)
ReconstructFrom(st, order, subDt, k) ==
    IF k > Len(order) THEN st
    ELSE ReconstructFrom(ReconstructOne(st, order[k], subDt), order, subDt, k + 1)

\* PhysicsIntegrationSystem::UpdateVelocities(world, dt): nothing unless dt
\* is finite and > 0.
UpdateVelocities(st, subDt) ==
    IF ~IsFinite(subDt) \/ FLe(subDt, 0) THEN st
    ELSE ReconstructFrom(st, StorageOrder(st.rb), subDt, 1)

\* CollisionResolutionSystem::Resolve(events, transforms, bodies), the body
\* of the loop: entity ids are indices; an event of an index out of range
\* or of separating bodies is skipped; else the impulse and the positional
\* correction are applied.
RawResolveEvent(st, ev) ==
    LET a == ev.entityA
        b == ev.entityB
        velAlongNormal == FAdd(FMul(FSub(st.rb[b].vx, st.rb[a].vx), ev.normalX),
                               FMul(FSub(st.rb[b].vy, st.rb[a].vy), ev.normalY))
        e == FMin(st.rb[a].restitution, st.rb[b].restitution)
        invMassSum == FAdd(st.rb[a].invMass, st.rb[b].invMass)
        j == FDiv(FMul(FNeg(FAdd(F(1), e)), velAlongNormal), invMassSum)
        r == ApplyImpulse(st.rb, a, b, FMul(j, ev.normalX), FMul(j, ev.normalY))
        correction == FMul(FDiv(FMax(FSub(ev.penetration, Lit(1, 100)), 0), invMassSum),
                           Lit(1, 5))
        cx == FMul(correction, ev.normalX)
        cy == FMul(correction, ev.normalY)
        t1 == [st.tf EXCEPT ![a].x = FSub(@, FMul(cx, r[a].invMass)),
                            ![a].y = FSub(@, FMul(cy, r[a].invMass))]
    IN IF a \notin DOMAIN st.tf \/ b \notin DOMAIN st.tf THEN st
       ELSE IF FGt(velAlongNormal, 0) THEN st
       ELSE [tf |-> [t1 EXCEPT ![b].x = FAdd(@, FMul(cx, r[b].invMass)),
                               ![b].y = FAdd(@, FMul(cy, r[b].invMass))],
             rb |-> r]

RECURSIVE RawResolveFrom(_, _, _)
RawResolveFrom(st, events, k) ==
    IF k > Len(events) THEN st
    ELSE RawResolveFrom(RawResolveEvent(st, events[k]), events, k + 1)
RawResolve(st, events) == RawResolveFrom(st, events, 1)

(***************************************************************************)
(* JobSystem                                                               *)
(***************************************************************************)
NoBody == [kind |-> "none", throws |-> FALSE]

\* FunctionJob::Execute: runs m_fn, which may throw.
BodyThrows(id) == body[id].throws

\* A client is inside Wait(handle) on h: between its entry and its return or throw.
WaitPcs == {"lookup", "check", "lockM", "block", "blocked", "wake", "readFailure", "finish"}
InWait(t, h) == cpc[t] \in WaitPcs /\ ch[t] = h

\* Wait(handle) calls begun on h so far: the finished ones and those in progress.
started(h) == Len(wlog[h]) + Cardinality({t \in Clients : InWait(t, h)})

\* The ids that Schedule can hand out: a run of Update or of Dispatch
\* schedules more jobs than a run of the job system alone.
JobLimit == IF upc = "off" /\ dispatchCall.pc = "off" THEN MaxJobs ELSE MaxUpdateJobs
AllIds == 1..Max(MaxJobs, MaxUpdateJobs)

JsInit ==
    /\ nextId = 1
    /\ jobs = <<>>
    /\ states = {}
    /\ completedFailures = {}
    /\ completed = [i \in AllIds |-> FALSE]
    /\ failure = [i \in AllIds |-> FALSE]
    /\ stateM = [i \in AllIds |-> 0]
    /\ cvWaiters = [i \in AllIds |-> {}]
    /\ body = [i \in AllIds |-> NoBody]
    /\ execCount = [i \in AllIds |-> 0]
    /\ issued = {}
    /\ wpc = [w \in Workers |-> "idle"]
    /\ wjob = [w \in Workers |-> 0]
    /\ wfail = [w \in Workers |-> FALSE]
    /\ cpc = [t \in Clients |-> "idle"]
    /\ ch = [t \in Clients |-> 0]
    /\ cfail = [t \in Clients |-> FALSE]
    /\ cmode = [t \in Clients |-> "single"]
    /\ cvec = [t \in Clients |-> <<>>]
    /\ crest = [t \in Clients |-> <<>>]
    /\ cid = [t \in Clients |-> 0]
    /\ wlog = [i \in AllIds |-> <<>>]
    /\ overlap = [i \in AllIds |-> FALSE]

\* handles.push_back(ScheduleFunction(...)) and i += batchSize in the loop
\* of Dispatch.
ReturnDispatchHandle(id) ==
    IF dispatchCall.pc = "loop"
      THEN dispatchCall' = [dispatchCall EXCEPT !.handles = Append(@, id),
                                                !.i = @ + dispatchCall.batchSize]
      ELSE UNCHANGED dispatchCall

\* Schedule, first half: the job is wrapped and handle.id = nextId.fetch_add(1).
ScheduleAllocId(t, b) ==
    /\ cpc[t] = "idle"
    /\ nextId <= JobLimit
    /\ cid' = [cid EXCEPT ![t] = nextId]
    /\ body' = [body EXCEPT ![nextId] = b]
    /\ nextId' = nextId + 1
    /\ cpc' = [cpc EXCEPT ![t] = "enqueue"]
    /\ UNCHANGED <<jobs, states, completedFailures, stateVars, execCount, issued,
                   workerVars, ch, cfail, cmode, cvec, crest, obsVars>>
    /\ UNCHANGED <<detVars, pipeVars, physVars, extVars>>

\* Schedule, second half: under impl->mutex the state is registered and the
\* wrapped job pushed; cv.notify_one; the handle is returned.
ScheduleEnqueue(t) ==
    /\ cpc[t] = "enqueue"
    /\ states' = states \cup {cid[t]}
    /\ jobs' = Append(jobs, cid[t])
    /\ issued' = issued \cup {cid[t]}
    /\ cpc' = [cpc EXCEPT ![t] = "idle"]
    /\ cid' = [cid EXCEPT ![t] = 0]
    /\ UNCHANGED <<nextId, completedFailures, stateVars, body, execCount,
                   workerVars, ch, cfail, cmode, cvec, crest, obsVars>>
    /\ ReturnHandle(cid[t])
    /\ ReturnIslandHandle(cid[t])
    /\ ReturnDispatchHandle(cid[t])
    /\ UNCHANGED <<pipeVars, dtorVars, outOfRange, worldVars>>

\* ScheduleFunction(fn): a FunctionJob whose fn throws or does not.
ScheduleFunction(t) ==
    \E thr \in BOOLEAN : ScheduleAllocId(t, [kind |-> "fn", throws |-> thr])

\* job = std::move(impl->jobs.front()); impl->jobs.pop(): the job taken and
\* the queue left. (A faulty variant takes the job at the back.)
TakeBack(queue) == [job |-> queue[Len(queue)], rest |-> SubSeq(queue, 1, Len(queue) - 1)]
TakeFront(queue) == [job |-> Head(queue), rest |-> Tail(queue)]

\* The worker loop: wait until the queue is non-empty, take the front job.
WorkerTake(w) ==
    /\ wpc[w] = "idle"
    /\ jobs # <<>>
    /\ wjob' = [wjob EXCEPT ![w] = TakeFront(jobs).job]
    /\ jobs' = TakeFront(jobs).rest
    /\ wpc' = [wpc EXCEPT ![w] = "execute"]
    /\ UNCHANGED <<nextId, states, completedFailures, stateVars, jobVars, wfail,
                   clientVars, obsVars>>
    /\ UNCHANGED <<detVars, pipeVars, physVars, extVars>>

\* The failure WrappedJob::Execute holds after its try/catch around
\* inner->Execute(): a fresh exception_ptr, set only by this job's throw.
\* (A faulty variant keeps one exception_ptr for all the jobs and never clears it.)
ExecuteFailureShared(w, id) ==
    BodyThrows(id) \/ \E j \in Ids : execCount[j] > 0 /\ BodyThrows(j)
ExecuteFailure(w, id) == BodyThrows(id)

\* WrappedJob::Execute, lines 150-163: the body runs inside try/catch, and
\* state->failure = failure. (No thread reads state->failure before it has
\* seen completed, so the plain store needs no step of its own.)
WorkerExecute(w) ==
    /\ wpc[w] = "execute"
    /\ execCount' = [execCount EXCEPT ![wjob[w]] = @ + 1]
    /\ wfail' = [wfail EXCEPT ![w] = ExecuteFailure(w, wjob[w])]
    /\ failure' = [failure EXCEPT ![wjob[w]] = ExecuteFailure(w, wjob[w])]
    /\ wpc' = [wpc EXCEPT ![w] = "storeCompleted"]
    /\ UNCHANGED <<implVars, completed, stateM, cvWaiters, body, issued, wjob,
                   clientVars, obsVars>>
    /\ RunBody(wjob[w])
    /\ RunIslandBody(wjob[w])
    /\ UNCHANGED <<pipeVars, extVars>>

\* state->completed.store(true, release)
WorkerStoreCompleted(w) ==
    /\ wpc[w] = "storeCompleted"
    /\ completed' = [completed EXCEPT ![wjob[w]] = TRUE]
    /\ wpc' = [wpc EXCEPT ![w] = "notify"]
    /\ UNCHANGED <<implVars, failure, stateM, cvWaiters, jobVars, wjob, wfail,
                   clientVars, obsVars>>
    /\ UNCHANGED <<detVars, pipeVars, physVars, extVars>>

\* The worker may notify once it holds state->m (lock_guard l{state->m}).
\* (A faulty variant notifies without taking the mutex.)
NotifyMayRunUnlocked(id) == TRUE
NotifyMayRun(id) == stateM[id] = 0

\* { lock_guard l{state->m}; state->cv.notify_all(); }
WorkerNotify(w) ==
    /\ wpc[w] = "notify"
    /\ NotifyMayRun(wjob[w])
    /\ cpc' = [t \in Clients |-> IF t \in cvWaiters[wjob[w]] THEN "wake" ELSE cpc[t]]
    /\ cvWaiters' = [cvWaiters EXCEPT ![wjob[w]] = {}]
    /\ wpc' = [wpc EXCEPT ![w] = "cleanup"]
    /\ UNCHANGED <<implVars, completed, failure, stateM, jobVars, wjob, wfail,
                   ch, cfail, cmode, cvec, crest, cid, obsVars>>
    /\ UNCHANGED <<detVars, pipeVars, physVars, extVars>>

\* Lines 172-178: the failure is remembered in completedFailures only when
\* the state is still registered, that is when no Wait has erased it.
\* (A faulty variant remembers it whether or not the state is registered.)
CleanupStoresFailureAlways(w) == wfail[w]
CleanupStoresFailure(w) == wjob[w] \in states /\ wfail[w]

\* Execute, the cleanup under impl->mutex: if the state is still registered,
\* remember the failure for a later Wait and erase the state. The worker
\* loop then goes round, whether or not the body threw.
WorkerCleanup(w) ==
    /\ wpc[w] = "cleanup"
    /\ completedFailures' = IF CleanupStoresFailure(w)
                                THEN completedFailures \cup {wjob[w]}
                                ELSE completedFailures
    /\ states' = states \ {wjob[w]}
    /\ wpc' = [wpc EXCEPT ![w] = "idle"]
    /\ wjob' = [wjob EXCEPT ![w] = 0]
    /\ wfail' = [wfail EXCEPT ![w] = FALSE]
    /\ UNCHANGED <<nextId, jobs, stateVars, jobVars, clientVars, obsVars>>
    /\ UNCHANGED <<detVars, pipeVars, physVars, extVars>>

\* ---- Wait(handle) ----

\* The pc of a client whose Wait(handle) throws: inside Wait(handles) the
\* exception leaves the for loop, and with it Wait(handles).
RaisedPc(t) == IF cmode[t] = "vector" THEN "vecRaised" ELSE "raised"

\* Entering Wait(handle) on h.
EnterWait(t, h) ==
    /\ ch' = [ch EXCEPT ![t] = h]
    /\ cpc' = [cpc EXCEPT ![t] = "lookup"]
    /\ overlap' = IF h = 0 THEN overlap
                  ELSE [overlap EXCEPT ![h] = @ \/ \E u \in Clients \ {t} : InWait(u, h)]

\* A thread calls Wait(handle) with a handle Schedule returned, or with
\* JobHandle{} (id 0).
StartWait(t, h) ==
    /\ cpc[t] = "idle"
    /\ h \in issued \cup {0}
    /\ h # 0 => started(h) < MaxWaits
    /\ cmode' = [cmode EXCEPT ![t] = "single"]
    /\ EnterWait(t, h)
    /\ UNCHANGED <<implVars, stateVars, jobVars, workerVars, cfail, cvec, crest, cid, wlog>>
    /\ UNCHANGED <<detVars, pipeVars, physVars, extVars>>

\* The outcome o of a finished Wait(handle) on h is noted, with the way it came
\* about: "reaped" when the lookup found the state already erased, "state" when
\* the caller held the state and saw it completed.
Outcome(t, h, o, v) ==
    wlog' = IF h = 0 THEN wlog ELSE [wlog EXCEPT ![h] = Append(@, [out |-> o, via |-> v])]

\* Wait, lines 212-235: id 0 returns; under impl->mutex look the state up;
\* if it is gone, rethrow (and erase) a remembered failure, else return.
WaitLookup(t) ==
    /\ cpc[t] = "lookup"
    /\ LET h == ch[t] IN
         IF h = 0
           THEN /\ cpc' = [cpc EXCEPT ![t] = "returned"]
                /\ UNCHANGED <<completedFailures, wlog>>
           ELSE IF h \notin states
             THEN IF h \in completedFailures
                    THEN /\ completedFailures' = completedFailures \ {h}
                         /\ cpc' = [cpc EXCEPT ![t] = RaisedPc(t)]
                         /\ Outcome(t, h, "raised", "reaped")
                    ELSE /\ cpc' = [cpc EXCEPT ![t] = "returned"]
                         /\ Outcome(t, h, "returned", "reaped")
                         /\ UNCHANGED completedFailures
             ELSE /\ cpc' = [cpc EXCEPT ![t] = "check"]
                  /\ UNCHANGED <<completedFailures, wlog>>
    /\ UNCHANGED <<nextId, jobs, states, stateVars, jobVars, workerVars,
                   ch, cfail, cmode, cvec, crest, cid, overlap>>
    /\ UNCHANGED <<detVars, pipeVars, physVars, extVars>>

\* The predicate of the wait: state->completed.load(acquire).
\* (A faulty variant does not wait for completion.)
WaitPredicateTrue(h) == TRUE
WaitPredicate(h) == completed[h]

\* if (!state->completed.load(acquire)) ...
WaitCheck(t) ==
    /\ cpc[t] = "check"
    /\ cpc' = [cpc EXCEPT ![t] = IF WaitPredicate(ch[t]) THEN "readFailure" ELSE "lockM"]
    /\ UNCHANGED <<implVars, stateVars, jobVars, workerVars,
                   ch, cfail, cmode, cvec, crest, cid, obsVars>>
    /\ UNCHANGED <<detVars, pipeVars, physVars, extVars>>

\* unique_lock lk{state->m} (or the re-acquisition after a wake-up), then the
\* predicate of cv.wait under the mutex: if it holds the lock is released and
\* Wait goes on, else the thread is about to block.
WaitLockAndTest(t) ==
    /\ cpc[t] \in {"lockM", "wake"}
    /\ stateM[ch[t]] = 0
    /\ IF WaitPredicate(ch[t])
         THEN /\ cpc' = [cpc EXCEPT ![t] = "readFailure"]
              /\ UNCHANGED stateM
         ELSE /\ cpc' = [cpc EXCEPT ![t] = "block"]
              /\ stateM' = [stateM EXCEPT ![ch[t]] = t]
    /\ UNCHANGED <<implVars, completed, failure, cvWaiters, jobVars, workerVars,
                   ch, cfail, cmode, cvec, crest, cid, obsVars>>
    /\ UNCHANGED <<detVars, pipeVars, physVars, extVars>>

\* cv.wait(lk): atomically release state->m and block on state->cv.
WaitBlock(t) ==
    /\ cpc[t] = "block"
    /\ stateM' = [stateM EXCEPT ![ch[t]] = 0]
    /\ cvWaiters' = [cvWaiters EXCEPT ![ch[t]] = @ \cup {t}]
    /\ cpc' = [cpc EXCEPT ![t] = "blocked"]
    /\ UNCHANGED <<implVars, completed, failure, jobVars, workerVars,
                   ch, cfail, cmode, cvec, crest, cid, obsVars>>
    /\ UNCHANGED <<detVars, pipeVars, physVars, extVars>>

\* A condition variable may wake a thread that nobody notified.
SpuriousWake(t) ==
    /\ cpc[t] = "blocked"
    /\ cvWaiters' = [cvWaiters EXCEPT ![ch[t]] = @ \ {t}]
    /\ cpc' = [cpc EXCEPT ![t] = "wake"]
    /\ UNCHANGED <<implVars, completed, failure, stateM, jobVars, workerVars,
                   ch, cfail, cmode, cvec, crest, cid, obsVars>>
    /\ UNCHANGED <<detVars, pipeVars, physVars, extVars>>

\* auto failure = state->failure
WaitReadFailure(t) ==
    /\ cpc[t] = "readFailure"
    /\ cfail' = [cfail EXCEPT ![t] = failure[ch[t]]]
    /\ cpc' = [cpc EXCEPT ![t] = "finish"]
    /\ UNCHANGED <<implVars, stateVars, jobVars, workerVars,
                   ch, cmode, cvec, crest, cid, obsVars>>
    /\ UNCHANGED <<detVars, pipeVars, physVars, extVars>>

\* What finishWait leaves in completedFailures: the entry of the handle is erased.
\* (A faulty variant forgets to erase it.)
FinishWaitKeepsFailure(h) == completedFailures
FinishWaitFailures(h) == completedFailures \ {h}

\* finishWait() under impl->mutex, then rethrow the failure or return.
WaitFinish(t) ==
    /\ cpc[t] = "finish"
    /\ states' = states \ {ch[t]}
    /\ completedFailures' = FinishWaitFailures(ch[t])
    /\ IF cfail[t]
         THEN /\ cpc' = [cpc EXCEPT ![t] = RaisedPc(t)]
              /\ Outcome(t, ch[t], "raised", "state")
         ELSE /\ cpc' = [cpc EXCEPT ![t] = "returned"]
              /\ Outcome(t, ch[t], "returned", "state")
    /\ UNCHANGED <<nextId, jobs, stateVars, jobVars, workerVars,
                   ch, cfail, cmode, cvec, crest, cid, overlap>>
    /\ UNCHANGED <<detVars, pipeVars, physVars, extVars>>

\* The caller of Wait(handle) goes on after the return or the catch.
WaitResume(t) ==
    /\ cpc[t] \in {"returned", "raised"}
    /\ cmode[t] = "single"
    /\ cpc' = [cpc EXCEPT ![t] = "idle"]
    /\ ch' = [ch EXCEPT ![t] = 0]
    /\ cfail' = [cfail EXCEPT ![t] = FALSE]
    /\ UNCHANGED <<implVars, stateVars, jobVars, workerVars,
                   cmode, cvec, crest, cid, obsVars>>
    /\ UNCHANGED <<detVars, pipeVars, physVars, extVars>>

\* ---- Wait(handles) ----

\* Sequences of distinct issued handles, of length 1 or 2.
HandleVectors ==
    {<<h>> : h \in issued} \cup
    {<<g, h>> : <<g, h>> \in {p \in issued \X issued : p[1] # p[2]}}

SeqRange(s) == {s[i] : i \in DOMAIN s}

\* Wait(handles): for (handle : handles) Wait(handle);
StartWaitVector(t, hs) ==
    /\ cpc[t] = "idle"
    /\ hs \in HandleVectors
    /\ \A h \in SeqRange(hs) : started(h) < MaxWaits
    /\ cmode' = [cmode EXCEPT ![t] = "vector"]
    /\ cvec' = [cvec EXCEPT ![t] = hs]
    /\ crest' = [crest EXCEPT ![t] = Tail(hs)]
    /\ EnterWait(t, Head(hs))
    /\ UNCHANGED <<implVars, stateVars, jobVars, workerVars, cfail, cid, wlog>>
    /\ UNCHANGED <<detVars, pipeVars, physVars, extVars>>

\* The loop of Wait(handles) after one Wait(handle) has returned.
WaitVectorNext(t) ==
    /\ cpc[t] = "returned"
    /\ cmode[t] = "vector"
    /\ IF crest[t] = <<>>
         THEN /\ cpc' = [cpc EXCEPT ![t] = "vecReturned"]
              /\ UNCHANGED <<ch, crest, overlap>>
         ELSE /\ crest' = [crest EXCEPT ![t] = Tail(@)]
              /\ EnterWait(t, Head(crest[t]))
    /\ UNCHANGED <<implVars, stateVars, jobVars, workerVars, cfail, cmode, cvec, cid, wlog>>
    /\ UNCHANGED <<detVars, pipeVars, physVars, extVars>>

\* The caller of Wait(handles) goes on after the return or the catch.
WaitVectorResume(t) ==
    /\ cpc[t] \in {"vecReturned", "vecRaised"}
    /\ cpc' = [cpc EXCEPT ![t] = "idle"]
    /\ cmode' = [cmode EXCEPT ![t] = "single"]
    /\ ch' = [ch EXCEPT ![t] = 0]
    /\ cfail' = [cfail EXCEPT ![t] = FALSE]
    /\ cvec' = [cvec EXCEPT ![t] = <<>>]
    /\ crest' = [crest EXCEPT ![t] = <<>>]
    /\ UNCHANGED <<implVars, stateVars, jobVars, workerVars, cid, obsVars>>
    /\ UNCHANGED <<detVars, pipeVars, physVars, extVars>>

WorkerStep(w) ==
    \/ WorkerTake(w)
    \/ WorkerExecute(w)
    \/ WorkerStoreCompleted(w)
    \/ WorkerNotify(w)
    \/ WorkerCleanup(w)

\* The steps of a client inside Schedule or Wait(handle).
ClientProgress(t) ==
    \/ ScheduleEnqueue(t)
    \/ WaitLookup(t)
    \/ WaitCheck(t)
    \/ WaitLockAndTest(t)
    \/ WaitBlock(t)
    \/ WaitReadFailure(t)
    \/ WaitFinish(t)

(***************************************************************************)
(* CollisionSystem::Detect                                                 *)
(***************************************************************************)
\* Detect has not been called: the state of the detector in the
\* specifications of the job system alone.
DetIdle ==
    /\ aabbs = <<>> /\ entityIds = <<>> /\ hasJobs = FALSE
    /\ entries = <<>> /\ tasks = <<>> /\ taskResults = <<>> /\ handles = <<>>
    /\ outEvents = <<>> /\ serialEvents = <<>> /\ dpc = "off" /\ arrival = <<>>

\* The boxes of the inputs: well-formed boxes with integer corners.
Coords == (0 - 1)..MaxCoord
Boxes == {b \in [minX : Coords, minY : Coords, maxX : Coords, maxY : Coords] :
            b.minX <= b.maxX /\ b.minY <= b.maxY}

\* The fixed boxes of a large input: a strip of unit boxes, each touching the
\* next, beginning at the edge of the free boxes' range, then far single points.
PadBox(k) ==
    IF k < StripLen
      THEN [minX |-> MaxCoord + k, minY |-> 0, maxX |-> MaxCoord + k + 1, maxY |-> 1]
      ELSE [minX |-> MaxCoord + 4 * k, minY |-> 0, maxX |-> MaxCoord + 4 * k, maxY |-> 0]
Padding == [k \in 1..PadCount |-> PadBox(k - 1)]

\* A call Detect(boxes, ids, outEvents, jobSystem) is about to be made.
DetCall(boxes, js) ==
    /\ aabbs = boxes
    /\ entityIds = [k \in 1..Len(boxes) |-> Len(boxes) - k]
    /\ hasJobs = js
    /\ entries = <<>> /\ tasks = <<>> /\ taskResults = <<>> /\ handles = <<>>
    /\ outEvents = <<>> /\ serialEvents = <<>> /\ dpc = "call" /\ arrival = <<>>

\* Detect takes the spatial-hash path.
UsesGrid == Len(aabbs) >= 2 /\ Len(aabbs) = Len(entityIds)
            /\ hasJobs /\ Len(aabbs) > ParallelThreshold

\* Detect(aabbs, entityIds, eventsSerial, nullptr): the whole call.
DetectSerially ==
    /\ dpc = "call"
    /\ serialEvents' = IF Len(aabbs) < 2 \/ Len(aabbs) # Len(entityIds)
                         THEN <<>> ELSE SerialDetect(aabbs, entityIds)
    /\ dpc' = "serialDone"
    /\ UNCHANGED <<aabbs, entityIds, hasJobs, entries, tasks, taskResults, handles,
                   outEvents, arrival>>
    /\ UNCHANGED <<jsVars, pipeVars, physVars, extVars>>

\* Detect(aabbs, entityIds, eventsParallel, &jobSystem): the whole call, its
\* jobs run to completion: every task's buffer holds the task's events when
\* Wait(handles) returns.
DetectWithJobs ==
    /\ dpc = "serialDone"
    /\ hasJobs' = TRUE
    /\ dpc' = "done"
    /\ IF Len(aabbs) < 2 \/ Len(aabbs) # Len(entityIds)
         THEN /\ outEvents' = <<>>
              /\ UNCHANGED <<entries, tasks, taskResults>>
         ELSE IF Len(aabbs) > ParallelThreshold
           THEN /\ entries' = SortEntries(GridEntries(aabbs))
                /\ tasks' = GridTasks(entries')
                /\ taskResults' = [t \in 1..Len(tasks') |->
                                      CellTaskResult(tasks'[t], entries', aabbs, entityIds)]
                /\ outEvents' = MergeResults(taskResults')
           ELSE /\ outEvents' = SerialDetect(aabbs, entityIds)
                /\ UNCHANGED <<entries, tasks, taskResults>>
    /\ UNCHANGED <<aabbs, entityIds, handles, serialEvents, arrival>>
    /\ UNCHANGED <<jsVars, pipeVars, physVars, extVars>>

\* Detect on thread t, up to the Dispatch: the early returns, the serial path,
\* or the grid entries, their sort, the tasks and the empty result buffers.
DetectBegin(t) ==
    /\ dpc = "call"
    /\ cpc[t] = "idle"
    /\ IF Len(aabbs) < 2 \/ Len(aabbs) # Len(entityIds)
         THEN /\ outEvents' = <<>> /\ dpc' = "done"
              /\ UNCHANGED <<entries, tasks, taskResults>>
         ELSE IF UsesGrid
           THEN /\ entries' = SortEntries(GridEntries(aabbs))
                /\ tasks' = GridTasks(entries')
                /\ taskResults' = [k \in 1..Len(tasks') |-> <<>>]
                /\ outEvents' = <<>>
                /\ dpc' = IF tasks' = <<>> THEN "done" ELSE "dispatch"
           ELSE /\ outEvents' = SerialDetect(aabbs, entityIds)
                /\ dpc' = "done"
                /\ UNCHANGED <<entries, tasks, taskResults>>
    /\ UNCHANGED <<aabbs, entityIds, hasJobs, handles, serialEvents, arrival>>
    /\ UNCHANGED <<jsVars, pipeVars, physVars, extVars>>

\* Dispatch(tasks.size(), batchSize, lambda): the next chunk [i, end) is
\* scheduled as one function job.
DetectDispatch(t) ==
    /\ dpc = "dispatch"
    /\ Len(handles) * DetectBatchSize < Len(tasks)
    /\ ScheduleAllocId(t, [kind |-> "cells", throws |-> FALSE,
                           first |-> Len(handles) * DetectBatchSize,
                           last |-> Min(Len(handles) * DetectBatchSize + DetectBatchSize,
                                        Len(tasks))])

\* jobSystem->Wait(handles) once Dispatch has returned.
DetectWait(t) ==
    /\ dpc = "dispatch"
    /\ Len(handles) * DetectBatchSize >= Len(tasks)
    /\ StartWaitVector(t, handles)

\* Wait(handles) has returned: the buffers are appended to outEvents.
DetectMerge(t) ==
    /\ dpc = "dispatch"
    /\ cpc[t] = "vecReturned"
    /\ outEvents' = outEvents \o MergeResults(taskResults)
    /\ dpc' = "done"
    /\ cpc' = [cpc EXCEPT ![t] = "idle"]
    /\ cmode' = [cmode EXCEPT ![t] = "single"]
    /\ ch' = [ch EXCEPT ![t] = 0]
    /\ cfail' = [cfail EXCEPT ![t] = FALSE]
    /\ cvec' = [cvec EXCEPT ![t] = <<>>]
    /\ crest' = [crest EXCEPT ![t] = <<>>]
    /\ UNCHANGED <<aabbs, entityIds, hasJobs, entries, tasks, taskResults, handles,
                   serialEvents, arrival>>
    /\ UNCHANGED <<implVars, stateVars, jobVars, workerVars, cid, obsVars, pipeVars, physVars, extVars>>

(***************************************************************************)
(* PhysicsSystem::Update: which thread runs which work. The world is       *)
(* described by the sizes that the pipeline's branches test.               *)
(***************************************************************************)
PipeIdle ==
    /\ world = [jobSystem |-> FALSE, dt |-> 0, substeps |-> 0, rbCount |-> 0,
                boxCount |-> 0, cells |-> 0, events |-> 0, islands |-> 0]
    /\ ppc = "off" /\ substep = 0 /\ placed = {}

\* The worlds: whether SetJobSystem was called, the sign of dt, the substeps
\* setting, the rigid bodies, the boxes of the broadphase, the cell tasks of
\* more than one box, the events Detect reports and the islands they form.
Worlds ==
    {wd \in [jobSystem : BOOLEAN, dt : (0 - 1)..1, substeps : 0..MaxSubsteps,
             rbCount : {0, IntegrateThreshold, IntegrateThreshold + 1},
             boxCount : {0, 2, ParallelThreshold, ParallelThreshold + 1},
             cells : 0..1, events : 0..2, islands : 0..2] :
        /\ wd.islands <= wd.events
        /\ wd.events > 0 => wd.boxCount >= 2
        /\ wd.cells > 0 => wd.boxCount >= 2
        /\ wd.events > 0 /\ wd.jobSystem /\ wd.boxCount > ParallelThreshold => wd.cells > 0}

PipeInit == world \in Worlds /\ ppc = "call" /\ substep = 0 /\ placed = {}

\* Work done by a Dispatch is run by the workers, other work by the caller.
Thread(onWorkers) == IF onWorkers THEN "worker" ELSE "caller"

\* PhysicsIntegrationSystem::Update: if (m_jobSystem && count > 256) Dispatch.
\* (A faulty variant dispatches whatever the count.)
IntegrationOnWorkersAnyCount == world.jobSystem
IntegrationOnWorkers == world.jobSystem /\ world.rbCount > IntegrateThreshold

\* Detect: the pair tests are dispatched on the spatial-hash path when there
\* is a task.
PairTestsOnWorkers ==
    world.jobSystem /\ world.boxCount > ParallelThreshold /\ world.cells > 0

\* ExecuteIslands: Dispatch with a job system and at least two islands.
IslandsOnWorkers == world.jobSystem /\ world.islands >= 2

\* Update, lines 68-74: the early return and the substep count.
PipeBegin ==
    /\ ppc = "call"
    /\ ppc' = IF world.dt < 0 THEN "done" ELSE "integrate"
    /\ UNCHANGED <<world, substep, placed>>
    /\ UNCHANGED <<jsVars, detVars, physVars, extVars>>

\* m_integration.Update(world, subDt)
PipeIntegrate ==
    /\ ppc = "integrate"
    /\ placed' = placed \cup {<<"integration", Thread(IntegrationOnWorkers)>>}
    /\ ppc' = "sync"
    /\ UNCHANGED <<world, substep>>
    /\ UNCHANGED <<jsVars, detVars, physVars, extVars>>

\* SyncDynamicAabbsToTransforms(world) and the gathering of the boxes.
PipeSync ==
    /\ ppc = "sync"
    /\ placed' = placed \cup {<<"aabbSync", "caller">>}
    /\ ppc' = "detect"
    /\ UNCHANGED <<world, substep>>
    /\ UNCHANGED <<jsVars, detVars, physVars, extVars>>

\* if (!m_broadphaseAABBs.empty()) m_collision.Detect(..., m_jobSystem)
PipeDetect ==
    /\ ppc = "detect"
    /\ placed' = IF world.boxCount < 2 THEN placed
                 ELSE IF world.jobSystem /\ world.boxCount > ParallelThreshold
                   THEN placed \cup {<<"gridBuild", "caller">>}
                               \cup (IF PairTestsOnWorkers THEN {<<"pairTest", "worker">>} ELSE {})
                   ELSE placed \cup {<<"pairTest", "caller">>}
    /\ ppc' = "resolvePosition"
    /\ UNCHANGED <<world, substep>>
    /\ UNCHANGED <<jsVars, detVars, physVars, extVars>>

\* What ResolvePosition and ResolveVelocity run: the caller gathers the
\* contacts and returns if there is none; else it builds the islands, and
\* ExecuteIslands solves them.
SolveIslands ==
    IF world.events = 0 THEN placed
    ELSE IF world.islands = 0 THEN placed \cup {<<"contactGather", "caller">>}
    ELSE placed \cup {<<"contactGather", "caller">>, <<"islandBuild", "caller">>,
                      <<"islandSolve", Thread(IslandsOnWorkers)>>}

\* if (!m_events.empty()) m_resolution.ResolvePosition(...)
PipeResolvePosition ==
    /\ ppc = "resolvePosition"
    /\ placed' = SolveIslands
    /\ ppc' = "constraints"
    /\ UNCHANGED <<world, substep>>
    /\ UNCHANGED <<jsVars, detVars, physVars, extVars>>

\* m_constraints.Resolve(world, subDt): a loop on the calling thread.
PipeConstraints ==
    /\ ppc = "constraints"
    /\ placed' = placed \cup {<<"jointSolve", "caller">>}
    /\ ppc' = "updateVelocities"
    /\ UNCHANGED <<world, substep>>
    /\ UNCHANGED <<jsVars, detVars, physVars, extVars>>

\* m_integration.UpdateVelocities(world, subDt): returns at once unless
\* dt > 0; else a loop on the calling thread.
PipeUpdateVelocities ==
    /\ ppc = "updateVelocities"
    /\ placed' = IF world.dt <= 0 THEN placed
                 ELSE placed \cup {<<"velocityReconstruction", "caller">>}
    /\ ppc' = "resolveVelocity"
    /\ UNCHANGED <<world, substep>>
    /\ UNCHANGED <<jsVars, detVars, physVars, extVars>>

\* if (!m_events.empty()) m_resolution.ResolveVelocity(...); then the next
\* substep, max(1, settings.substeps) in all.
PipeResolveVelocity ==
    /\ ppc = "resolveVelocity"
    /\ placed' = SolveIslands
    /\ substep' = substep + 1
    /\ ppc' = IF substep + 1 < Max(1, world.substeps) THEN "integrate" ELSE "done"
    /\ UNCHANGED world
    /\ UNCHANGED <<jsVars, detVars, physVars, extVars>>

\* No world has been built and no solver or Update call made: the state of
\* the physics in the specifications of the job system, the detector and
\* the thread placement.
EcsIdle ==
    tfStorage = <<>> /\ rbStorage = <<>> /\ aabbStorage = <<>> /\ jointStorage = <<>>
SolveIdle ==
    /\ contacts = <<>> /\ islands = <<>> /\ ipc = "off" /\ spc = "off"
    /\ solver = "position" /\ islandHandles = <<>> /\ solveLog = <<>>
UpdIdle ==
    /\ m_events = <<>> /\ m_jobSystem = FALSE
    /\ settings = DefaultSettings /\ env = DefaultEnv
    /\ upc = "off" /\ usub = 0 /\ dt = 0 /\ ucalls = 0
    /\ created = NoWorld /\ atCall = NoWorld /\ phases = <<>>
PhysIdle == EcsIdle /\ SolveIdle /\ UpdIdle

\* No call was made on a world yet.
NoCall == [op |-> "none", types |-> <<>>, id |-> 0, dt |-> 0]

\* No Dispatch call was made.
NoDispatch ==
    [pc |-> "off", thread |-> 0, jobCount |-> 0, batchSize |-> 0, i |-> 0, handles |-> <<>>]

\* The job system is running, no raw-array call was made and no ecs::World
\* exists: the state of these parts in the specifications of the other
\* parts.
DtorIdle == running = TRUE /\ tpc = "off" /\ joined = {} /\ atStop = {}
WorldIdle ==
    /\ m_nextEntity = 1 /\ m_entities = <<>> /\ m_systems = <<>> /\ added = <<>>
    /\ m_componentStores = <<>> /\ shadow = <<>>
    /\ called = <<>> /\ viewed = <<>>
    /\ m_broadphaseAABBs = <<>> /\ m_broadphaseIds = <<>>
    /\ wops = 0 /\ lastCall = NoCall /\ storesAtCall = <<>>
ExtIdle == DtorIdle /\ dispatchCall = NoDispatch /\ outOfRange = FALSE /\ WorldIdle


(***************************************************************************)
(* CollisionResolutionSystem::ResolvePosition and ResolveVelocity, called  *)
(* by thread t with the events of the world's boxes.                       *)
(***************************************************************************)
\* The call up to the Dispatch of ExecuteIslands: the contacts, the early
\* return without contacts, the islands, and the loop on the caller
\* without a job system or with fewer than two islands.
ResolveBegin(t) ==
    /\ spc = "call"
    /\ cpc[t] = "idle"
    /\ contacts' = GatherContacts(m_events, tfStorage, rbStorage, aabbStorage)
    /\ islands' = BuildIslands(contacts')
    /\ IF islands' = <<>>
         THEN /\ spc' = "done"
              /\ UNCHANGED <<tfStorage, rbStorage, solveLog>>
         ELSE IF ~m_jobSystem \/ Len(islands') < 2
           THEN LET st == SolveSequentially([tf |-> tfStorage, rb |-> rbStorage],
                                            islands', contacts', solver, settings)
                IN /\ tfStorage' = st.tf
                   /\ rbStorage' = st.rb
                   /\ solveLog' = solveLog \o LogOf(0, 0, Len(islands'))
                   /\ spc' = "done"
           ELSE /\ spc' = "dispatch"
                /\ UNCHANGED <<tfStorage, rbStorage, solveLog>>
    /\ UNCHANGED <<aabbStorage, jointStorage, ipc, solver, islandHandles>>
    /\ UNCHANGED updVars
    /\ UNCHANGED <<jsVars, detVars, pipeVars, extVars>>

\* Dispatch(islands.size(), batch, lambda): no job when the batch size is
\* 0; else the next chunk [i, end) is scheduled as one function job.
SolveDispatch(t) ==
    /\ spc = "dispatch"
    /\ ExecuteIslandsBatch > 0
    /\ Len(islandHandles) * ExecuteIslandsBatch < Len(islands)
    /\ ScheduleAllocId(t, [kind |-> "islands", throws |-> FALSE,
                           first |-> Len(islandHandles) * ExecuteIslandsBatch,
                           last |-> DispatchEnd(Len(islandHandles) * ExecuteIslandsBatch,
                                                ExecuteIslandsBatch, Len(islands))])

\* Dispatch has returned its handles.
Dispatched ==
    ExecuteIslandsBatch = 0 \/ Len(islandHandles) * ExecuteIslandsBatch >= Len(islands)

\* jobSystem->Wait(handles) once Dispatch has returned.
SolveWait(t) ==
    /\ spc = "dispatch"
    /\ Dispatched
    /\ islandHandles # <<>>
    /\ StartWaitVector(t, islandHandles)

\* Wait(handles) has returned, at once for no handle: ExecuteIslands and
\* the solver call return.
SolveReturn(t) ==
    /\ spc = "dispatch"
    /\ Dispatched
    /\ IF islandHandles = <<>> THEN cpc[t] = "idle" ELSE cpc[t] = "vecReturned"
    /\ spc' = "done"
    /\ cpc' = [cpc EXCEPT ![t] = "idle"]
    /\ cmode' = [cmode EXCEPT ![t] = "single"]
    /\ ch' = [ch EXCEPT ![t] = 0]
    /\ cfail' = [cfail EXCEPT ![t] = FALSE]
    /\ cvec' = [cvec EXCEPT ![t] = <<>>]
    /\ crest' = [crest EXCEPT ![t] = <<>>]
    /\ UNCHANGED <<contacts, islands, ipc, solver, islandHandles, solveLog>>
    /\ UNCHANGED <<ecsVars, updVars>>
    /\ UNCHANGED <<implVars, stateVars, jobVars, workerVars, cid, obsVars>>
    /\ UNCHANGED <<detVars, pipeVars, extVars>>

\* The worlds of the solver calls: boxes 2 wide and high. Entity 1 overlaps
\* entity 0 along x and entity 3 overlaps entity 2 along y; entity 2 stands
\* far from the first pair, or overlaps entity 1 and bridges the two pairs.
\* Entity 0 is static or dynamic; entities 1 and 3 rest or move.
SolveWorld(static0, v1x, v1y, v3y, bridge) ==
    LET x2 == IF bridge THEN F(2) ELSE F(10)
    IN [tf |-> [e \in 0..3 |->
                   CASE e = 0 -> TransformAt(0, 0)
                     [] e = 1 -> TransformAt(F(1), 0)
                     [] e = 2 -> TransformAt(x2, 0)
                     [] e = 3 -> TransformAt(x2, F(1))],
        rb |-> [e \in 0..3 |->
                   CASE e = 0 -> IF static0 THEN StaticBody ELSE DefaultBody
                     [] e = 1 -> [DefaultBody EXCEPT !.vx = v1x, !.vy = v1y]
                     [] e = 2 -> DefaultBody
                     [] e = 3 -> [DefaultBody EXCEPT !.vy = v3y]],
        aabb |-> [e \in 0..3 |->
                   CASE e = 0 -> BoxAt(0, 0, F(1), F(1))
                     [] e = 1 -> BoxAt(F(1), 0, F(1), F(1))
                     [] e = 2 -> BoxAt(x2, 0, F(1), F(1))
                     [] e = 3 -> BoxAt(x2, F(1), F(1), F(1))]]

SolveWorlds ==
    {SolveWorld(static0, v1x, v1y, v3y, bridge) :
        static0 \in BOOLEAN, v1x \in {F(0 - 1), 0}, v1y \in {0, F(1)},
        v3y \in {F(0 - 1), 0}, bridge \in BOOLEAN}

\* The world w has been built and a solver is about to be called on it.
SolveCall(w, kind, js, iterations) ==
    /\ tfStorage = w.tf /\ rbStorage = w.rb /\ aabbStorage = w.aabb /\ jointStorage = <<>>
    /\ contacts = <<>> /\ islands = <<>> /\ ipc = "off" /\ spc = "call"
    /\ solver = kind /\ islandHandles = <<>> /\ solveLog = <<>>
    /\ m_events = EventsOf(w.aabb) /\ m_jobSystem = js
    /\ settings = SettingsOf(1, iterations) /\ env = DefaultEnv
    /\ upc = "off" /\ usub = 0 /\ dt = 0 /\ ucalls = 0
    /\ created = w /\ atCall = w /\ phases = <<>>


(***************************************************************************)
(* PhysicsSystem::Update on a world, without a job system: one action for  *)
(* each call the substep loop makes.                                       *)
(***************************************************************************)
\* The transforms and the bodies of the world.
Live == [tf |-> tfStorage, rb |-> rbStorage]

\* const float subDt = dt / static_cast<float>(std::max(1, substeps));
\* (A faulty variant takes the setting as it is.)
SubstepsNoMax == settings.substeps
Substeps == Max(1, settings.substeps)

SubDt == FDiv(dt, F(Substeps))

\* Update(world, d): the early return for a dt that is not finite or is
\* negative, else the first substep begins.
UpdateCall(d) ==
    /\ upc = "idle"
    /\ ucalls < MaxUpdates
    /\ dt' = d
    /\ atCall' = [tf |-> tfStorage, rb |-> rbStorage, aabb |-> aabbStorage]
    /\ usub' = 0
    /\ phases' = <<>>
    /\ IF ~IsFinite(d) \/ FLt(d, 0) \/ ~(0 < Substeps)
         THEN upc' = "idle" /\ ucalls' = ucalls + 1
         ELSE upc' = "integrate" /\ UNCHANGED ucalls
    /\ UNCHANGED <<m_events, m_jobSystem, settings, env, created>>
    /\ UNCHANGED <<ecsVars, solveVars>>
    /\ UNCHANGED <<jsVars, detVars, pipeVars, extVars>>

\* m_integration.Update(world, subDt)
PhysIntegrate ==
    /\ upc = "integrate"
    /\ LET st == Integrate(Live, SubDt, env)
       IN tfStorage' = st.tf /\ rbStorage' = st.rb
    /\ phases' = Append(phases, "integrate")
    /\ upc' = "sync"
    /\ UNCHANGED <<aabbStorage, jointStorage>>
    /\ UNCHANGED <<m_events, m_jobSystem, settings, env, usub, dt, ucalls, created, atCall>>
    /\ UNCHANGED solveVars
    /\ UNCHANGED <<jsVars, detVars, pipeVars, extVars>>

\* SyncDynamicAabbsToTransforms(world)
PhysSync ==
    /\ upc = "sync"
    /\ aabbStorage' = SyncDynamicAabbsToTransforms(aabbStorage, Live)
    /\ phases' = Append(phases, "sync")
    /\ upc' = "detect"
    /\ UNCHANGED <<tfStorage, rbStorage, jointStorage>>
    /\ UNCHANGED <<m_events, m_jobSystem, settings, env, usub, dt, ucalls, created, atCall>>
    /\ UNCHANGED solveVars
    /\ UNCHANGED <<jsVars, detVars, pipeVars, extVars>>

\* m_events.clear(); the boxes are copied; Detect if there is a box.
PhysDetect ==
    /\ upc = "detect"
    /\ m_events' = EventsOf(aabbStorage)
    /\ phases' = Append(phases, "detect")
    /\ upc' = "resolvePosition"
    /\ UNCHANGED <<m_jobSystem, settings, env, usub, dt, ucalls, created, atCall>>
    /\ UNCHANGED <<ecsVars, solveVars>>
    /\ UNCHANGED <<jsVars, detVars, pipeVars, extVars>>

\* if (!m_events.empty()) m_resolution.ResolvePosition(m_events, world, m_jobSystem)
\* and, after UpdateVelocities, the same for ResolveVelocity: the call is
\* made. ResolveBegin, SolveDispatch, SolveWait and SolveReturn run it.
PhysSolverCall ==
    /\ upc \in {"resolvePosition", "resolveVelocity"}
    /\ spc = "off"
    /\ m_events # <<>>
    /\ spc' = "call"
    /\ solver' = IF upc = "resolvePosition" THEN "position" ELSE "velocity"
    /\ phases' = Append(phases, IF upc = "resolvePosition" THEN "solvePosition"
                                 ELSE "solveVelocity")
    /\ contacts' = <<>> /\ islands' = <<>> /\ islandHandles' = <<>> /\ solveLog' = <<>>
    /\ UNCHANGED ipc
    /\ UNCHANGED <<m_events, m_jobSystem, settings, env, upc, usub, dt, ucalls, created, atCall>>
    /\ UNCHANGED ecsVars
    /\ UNCHANGED <<jsVars, detVars, pipeVars, extVars>>

\* The solver call has returned, or was not made for want of events: after
\* ResolvePosition the joints are next; after ResolveVelocity the loop
\* goes to its next substep or Update returns.
PhysSolverReturn ==
    /\ upc \in {"resolvePosition", "resolveVelocity"}
    /\ \/ spc = "done"
       \/ spc = "off" /\ m_events = <<>>
    /\ spc' = "off"
    /\ IF upc = "resolvePosition"
         THEN upc' = "constraints" /\ UNCHANGED <<usub, ucalls>>
         ELSE /\ usub' = usub + 1
              /\ IF usub + 1 < Substeps
                   THEN upc' = "integrate" /\ UNCHANGED ucalls
                   ELSE upc' = "idle" /\ ucalls' = ucalls + 1
    /\ UNCHANGED <<contacts, islands, ipc, solver, islandHandles, solveLog>>
    /\ UNCHANGED <<m_events, m_jobSystem, settings, env, dt, created, atCall, phases>>
    /\ UNCHANGED ecsVars
    /\ UNCHANGED <<jsVars, detVars, pipeVars, extVars>>

\* m_constraints.Resolve(world, subDt)
PhysConstraints ==
    /\ upc = "constraints"
    /\ LET st == ResolveConstraints(Live, jointStorage, SubDt, settings)
       IN tfStorage' = st.tf /\ rbStorage' = st.rb
    /\ phases' = Append(phases, "solveJoints")
    /\ upc' = "updateVelocities"
    /\ UNCHANGED <<aabbStorage, jointStorage>>
    /\ UNCHANGED <<m_events, m_jobSystem, settings, env, usub, dt, ucalls, created, atCall>>
    /\ UNCHANGED solveVars
    /\ UNCHANGED <<jsVars, detVars, pipeVars, extVars>>

\* m_integration.UpdateVelocities(world, subDt)
PhysUpdateVelocities ==
    /\ upc = "updateVelocities"
    /\ LET st == UpdateVelocities(Live, SubDt)
       IN tfStorage' = st.tf /\ rbStorage' = st.rb
    /\ phases' = Append(phases, "reconstruct")
    /\ upc' = "resolveVelocity"
    /\ UNCHANGED <<aabbStorage, jointStorage>>
    /\ UNCHANGED <<m_events, m_jobSystem, settings, env, usub, dt, ucalls, created, atCall>>
    /\ UNCHANGED solveVars
    /\ UNCHANGED <<jsVars, detVars, pipeVars, extVars>>

\* The worlds of the Update calls. Entity 0 is a ground box 4 wide and 2
\* high, made static by invMass = 0 alone: its mass is 0 or the default 1,
\* its invInertia 0 or the default 1. Entity 1 is a dynamic box 2 wide and
\* high, above the ground or overlapping it, at rest or sliding. A rigid
\* distance joint may tie the two.
PhysWorld(mass0, invInertia0, y1, v1x) ==
    [tf |-> [e \in 0..1 |-> IF e = 0 THEN TransformAt(0, 0) ELSE TransformAt(0, y1)],
     rb |-> [e \in 0..1 |->
                IF e = 0 THEN [DefaultBody EXCEPT !.mass = mass0, !.invMass = 0,
                                                  !.invInertia = invInertia0]
                ELSE [DefaultBody EXCEPT !.vx = v1x]],
     aabb |-> [e \in 0..1 |-> IF e = 0 THEN BoxAt(0, 0, F(2), F(1))
                              ELSE BoxAt(0, y1, F(1), F(1))]]

PhysWorlds ==
    {PhysWorld(mass0, invInertia0, y1, v1x) :
        mass0 \in {0, F(1)}, invInertia0 \in {0, F(1)}, y1 \in {F(1), F(4)},
        v1x \in {0, F(1)}}

JointLists ==
    {<<>>, <<[entityA |-> 0, entityB |-> 1, targetDistance |-> F(2), compliance |-> 0]>>}

\* EnvironmentForces{}: gravityY = -9.81f.
Gravity == [DefaultEnv EXCEPT !.gravityY = Lit(0 - 981, 100)]

\* The dt arguments: NaN, +Inf, -1, 0, 0.25, 1.
UpdateDts == {NaN, PosInf, F(0 - 1), 0, Lit(1, 4), F(1)}


(***************************************************************************)
(* Spec: the job system used by client threads that schedule functions     *)
(* and wait for single handles, in any order and concurrently.             *)
(***************************************************************************)
Init == JsInit /\ DetIdle /\ PipeIdle /\ PhysIdle /\ ExtIdle

Next ==
    \/ \E w \in Workers : WorkerStep(w)
    \/ \E t \in Clients : ScheduleFunction(t)
    \/ \E t \in Clients : \E h \in 0..MaxJobs : StartWait(t, h)
    \/ \E t \in Clients : ClientProgress(t)
    \/ \E t \in Clients : WaitResume(t)
    \/ \E t \in Clients : SpuriousWake(t)

Spec == Init /\ [][Next]_vars

(***************************************************************************)
(* FairSpec: the job system with fairly scheduled threads. A worker or a   *)
(* client that can take its next step takes it; nothing obliges a client   *)
(* to begin a call, nor a condition variable to wake a thread spuriously.  *)
(* Clients wait for a handle, alone or concurrently, until a first Wait    *)
(* on it has finished.                                                     *)
(***************************************************************************)
NextFair ==
    \/ \E w \in Workers : WorkerStep(w)
    \/ \E t \in Clients : ScheduleFunction(t)
    \/ \E t \in Clients : \E h \in Ids : wlog[h] = <<>> /\ StartWait(t, h)
    \/ \E t \in Clients : ClientProgress(t)
    \/ \E t \in Clients : WaitResume(t)
    \/ \E t \in Clients : SpuriousWake(t)

FairSpec ==
    /\ Init /\ [][NextFair]_vars
    /\ \A w \in Workers : WF_vars(WorkerStep(w))
    /\ \A t \in Clients : WF_vars(ClientProgress(t))

(***************************************************************************)
(* SpecVector: the job system used by client threads that schedule         *)
(* functions and wait for vectors of handles.                              *)
(***************************************************************************)
NextVector ==
    \/ \E w \in Workers : WorkerStep(w)
    \/ \E t \in Clients : ScheduleFunction(t)
    \/ \E t \in Clients : \E hs \in HandleVectors : StartWaitVector(t, hs)
    \/ \E t \in Clients : ClientProgress(t)
    \/ \E t \in Clients : WaitVectorNext(t)
    \/ \E t \in Clients : WaitVectorResume(t)
    \/ \E t \in Clients : SpuriousWake(t)

SpecVector == Init /\ [][NextVector]_vars

(***************************************************************************)
(* SpecDetect: Detect is called on one input without a job system and then *)
(* with one, as the broadphase verification of the self tests does. The    *)
(* inputs are two free boxes, alone or followed by the fixed boxes.        *)
(***************************************************************************)
InitDetect ==
    /\ JsInit /\ PipeIdle /\ PhysIdle /\ ExtIdle
    /\ \E b1 \in Boxes, b2 \in Boxes, large \in BOOLEAN :
          DetCall(<<b1, b2>> \o (IF large THEN Padding ELSE <<>>), FALSE)

NextDetect == DetectSerially \/ DetectWithJobs

SpecDetect == InitDetect /\ [][NextDetect]_vars

(***************************************************************************)
(* SpecDetectPar: one thread calls Detect with the job system on a large   *)
(* input; the dispatched jobs are run by the workers in any interleaving.  *)
(***************************************************************************)
InitDetectPar ==
    /\ JsInit /\ PipeIdle /\ PhysIdle /\ ExtIdle
    /\ \E b1 \in {b \in Boxes : b.minX = 0 - 1 /\ b.minY = 0 - 1},
          b2 \in {b \in Boxes : b.maxX = MaxCoord /\ b.maxY = MaxCoord} :
          DetCall(<<b1, b2>> \o Padding, TRUE)

NextDetectPar ==
    \/ \E w \in Workers : WorkerStep(w)
    \/ DetectBegin(1)
    \/ DetectDispatch(1)
    \/ DetectWait(1)
    \/ DetectMerge(1)
    \/ \E t \in Clients : ClientProgress(t)
    \/ \E t \in Clients : WaitVectorNext(t)
    \/ \E t \in Clients : SpuriousWake(t)

SpecDetectPar == InitDetectPar /\ [][NextDetectPar]_vars

(***************************************************************************)
(* SpecPipeline: one PhysicsSystem::Update on each of the worlds.          *)
(***************************************************************************)
InitPipeline == JsInit /\ DetIdle /\ PipeInit /\ PhysIdle /\ ExtIdle

NextPipeline ==
    \/ PipeBegin
    \/ PipeIntegrate
    \/ PipeSync
    \/ PipeDetect
    \/ PipeResolvePosition
    \/ PipeConstraints
    \/ PipeUpdateVelocities
    \/ PipeResolveVelocity

SpecPipeline == InitPipeline /\ [][NextPipeline]_vars

(***************************************************************************)
(* Claims about the job system                                             *)
(***************************************************************************)
Raised(h) == {i \in DOMAIN wlog[h] : wlog[h][i].out = "raised"}

\* C1: by the time a Wait on a job's handle has returned (or raised), the body
\* of that job has run exactly once, and no body ever runs twice, whatever the
\* order of the Wait calls.
C1_ExecutedOnceBeforeWaitReturns ==
    /\ \A id \in Ids : execCount[id] <= 1
    /\ \A h \in Ids : wlog[h] # <<>> => execCount[h] = 1
    /\ \A t \in Clients :
          (cpc[t] \in {"returned", "raised"} /\ ch[t] # 0) => execCount[ch[t]] = 1

\* Waits in reverse order: the Wait on the second job has finished before any
\* Wait on the first job began.
C1_Witness ==
    /\ {1, 2} \subseteq issued
    /\ wlog[2] # <<>>
    /\ started(1) = 0
    /\ execCount[2] = 1

\* C2: when Wait is called several times one after another on the handle of a
\* job whose body throws, the first call raises and every later call returns.
C2_FirstSequentialWaitRaises ==
    \A h \in Ids :
        (BodyThrows(h) /\ ~overlap[h]) =>
            \A i \in DOMAIN wlog[h] :
                wlog[h][i].out = IF i = 1 THEN "raised" ELSE "returned"

\* Two failing jobs, each waited for twice in a row: the first Wait on one found
\* the job still registered, the first Wait on the other found it reaped.
C2_Witness ==
    /\ \A h \in {1, 2} :
          /\ BodyThrows(h) /\ ~overlap[h]
          /\ Len(wlog[h]) = 2
          /\ wlog[h][1].out = "raised" /\ wlog[h][2].out = "returned"
    /\ wlog[1][1].via = "state"
    /\ wlog[2][1].via = "reaped"

\* C3: the failure of a job is raised to at most one of the Wait calls on its
\* handle, also when the calls run concurrently.
C3_AtMostOneWaitRaises ==
    \A h \in Ids : Cardinality(Raised(h)) <= 1

\* C4: when Wait(handles) returns or raises, every job named in handles has
\* completed.
C4_VectorWaitCoversAll ==
    \A t \in Clients :
        cpc[t] \in {"vecReturned", "vecRaised"} =>
            \A h \in SeqRange(cvec[t]) : completed[h]

\* C5: a job whose body throws neither ends the worker that ran it nor fails
\* another job: no Wait on the handle of a job that did not throw raises, and
\* every enqueued job is executed.
C5_FailureStaysWithItsJob ==
    /\ [](\A h \in Ids : ~BodyThrows(h) => Raised(h) = {})
    /\ \A id \in Ids : (id \in issued) ~> (execCount[id] = 1)

\* A throwing job has run, and a Wait on a job scheduled after it returned.
C5_Witness ==
    /\ BodyThrows(1) /\ execCount[1] = 1
    /\ ~BodyThrows(2) /\ execCount[2] = 1
    /\ \E i \in DOMAIN wlog[2] : wlog[2][i].out = "returned"
    /\ \A w \in Workers : wpc[w] = "idle"

\* C6: a client inside Wait(handle) on a scheduled job eventually leaves it,
\* by return or by the job's exception: no wake-up is lost.
C6_WaitEventuallyLeaves ==
    \A t \in Clients : (cpc[t] \in WaitPcs) ~> (cpc[t] \in {"returned", "raised"})

\* A client that blocked on the condition variable of a throwing job has been
\* notified by the worker.
C6_Witness ==
    \E t \in Clients :
        /\ cpc[t] = "wake"
        /\ completed[ch[t]]
        /\ BodyThrows(ch[t])
        /\ \E w \in Workers : wpc[w] = "cleanup" /\ wjob[w] = ch[t]
(***************************************************************************)
(* Claims about the broadphase detector                                    *)
(***************************************************************************)
EventPairs(evs) == {<<evs[k].entityA, evs[k].entityB>> : k \in DOMAIN evs}

\* The grid cells a box covers, and the cell <<cx, cy>> that holds a point.
CellsOf(box) ==
    {c \in (GetCellCoords(box.minX, box.minY)[1]..GetCellCoords(box.maxX, box.maxY)[1])
           \X (GetCellCoords(box.minX, box.minY)[2]..GetCellCoords(box.maxX, box.maxY)[2]) : TRUE}
CellHolds(c, px, py) ==
    /\ c[1] * CELL_SIZE <= px /\ px < (c[1] + 1) * CELL_SIZE
    /\ c[2] * CELL_SIZE <= py /\ py < (c[2] + 1) * CELL_SIZE

\* The cell coordinates packed in a key.
UnpackKey(key) ==
    <<IF key[1] = 0 THEN key[2] ELSE (key[2] - 2147483647) - 1,
      IF key[3] = 0 THEN key[4] ELSE (key[4] - 2147483647) - 1>>

\* The pairs of box indices i < j whose boxes overlap (edges included).
OverlappingPairs ==
    UNION {{<<i, j>> : j \in {k \in (i + 1)..(Len(aabbs) - 1) :
                                /\ aabbs[i + 1].minX <= aabbs[k + 1].maxX
                                /\ aabbs[k + 1].minX <= aabbs[i + 1].maxX
                                /\ aabbs[i + 1].minY <= aabbs[k + 1].maxY
                                /\ aabbs[k + 1].minY <= aabbs[i + 1].maxY}} :
           i \in 0..(Len(aabbs) - 1)}

\* The <<task, position>> places of the result buffers that hold an event of
\* the pair p, in either order of its entities.
Emitters(p) ==
    {e \in UNION {{<<t, k>> : k \in DOMAIN taskResults[t]} : t \in DOMAIN taskResults} :
        {taskResults[e[1]][e[2]].entityA, taskResults[e[1]][e[2]].entityB}
            = {entityIds[p[1] + 1], entityIds[p[2] + 1]}}

\* The indices of the boxes in the run of entries of task t.
TaskIndexes(t) == {entries[tasks[t].start + k].index : k \in 1..tasks[t].count}

\* The two free boxes overlap and share four grid cells.
FreeBoxesShareCells ==
    /\ Len(aabbs) > ParallelThreshold
    /\ <<0, 1>> \in OverlappingPairs
    /\ Cardinality(CellsOf(aabbs[1]) \cap CellsOf(aabbs[2])) = 4

ExpectedParallelEvents ==
    LET es == SortEntries(GridEntries(aabbs))
        ts == GridTasks(es)
        rs == [t \in 1..Len(ts) |-> CellTaskResult(ts[t], es, aabbs, entityIds)]
    IN MergeRange(rs, [t \in 1..Len(ts) |-> t], 1, Len(ts))

\* C9: the event sequence of the parallel path depends on the boxes and ids
\* only: each task's events are in the task's own buffer, the buffers are
\* merged in task order and only once every dispatched job has completed, so
\* that no interleaving and no order of job completion changes the output.
C9_OutputDependsOnlyOnInput ==
    /\ outEvents # <<>> => \A h \in SeqRange(handles) : completed[h] /\ execCount[h] = 1
    /\ dpc = "done" =>
          /\ outEvents = ExpectedParallelEvents
          /\ \A t \in DOMAIN tasks :
                taskResults[t] = CellTaskResult(tasks[t], entries, aabbs, entityIds)

\* Detect is done, the job of the second chunk ran before the job of the first,
\* and both chunks hold events.
C9_Witness ==
    /\ dpc = "done"
    /\ arrival = <<2, 1>>
    /\ \E t \in DOMAIN tasks : t <= body[1].last /\ taskResults[t] # <<>>
    /\ \E t \in DOMAIN tasks : t > body[2].first /\ taskResults[t] # <<>>

(***************************************************************************)
(* Claims about the physics pipeline                                       *)
(***************************************************************************)
OnWorkers == {p[1] : p \in {q \in placed : q[2] = "worker"}}
OnCaller == {p[1] : p \in {q \in placed : q[2] = "caller"}}

Entities == 0..(NumEntities - 1)
BareContacts == [entityA : Entities, entityB : Entities]
ContactLists == UNION {[1..n -> BareContacts] : n \in 0..MaxContacts}

\* auto islands = BuildIslands(contacts);
BuildIslandsCall ==
    /\ ipc = "call"
    /\ islands' = BuildIslands(contacts)
    /\ ipc' = "built"
    /\ UNCHANGED <<contacts, spc, solver, islandHandles, solveLog>>
    /\ UNCHANGED <<ecsVars, updVars>>
    /\ UNCHANGED <<jsVars, detVars, pipeVars, extVars>>

(***************************************************************************)
(* SpecIslands: BuildIslands on every list of at most MaxContacts contacts *)
(* between NumEntities entities, a contact of an entity with itself and    *)
(* repeated contacts included.                                             *)
(***************************************************************************)
InitIslands ==
    /\ JsInit /\ DetIdle /\ PipeIdle /\ EcsIdle /\ UpdIdle /\ ExtIdle
    /\ contacts \in ContactLists /\ islands = <<>> /\ ipc = "call" /\ spc = "off"
    /\ solver = "position" /\ islandHandles = <<>> /\ solveLog = <<>>

NextIslands == BuildIslandsCall

SpecIslands == InitIslands /\ [][NextIslands]_vars

(***************************************************************************)
(* SpecSolve: one thread calls ResolvePosition or ResolveVelocity on a     *)
(* world, with or without the job system; the jobs that ExecuteIslands     *)
(* dispatches are run by the workers in any interleaving.                  *)
(***************************************************************************)
InitSolve ==
    /\ JsInit /\ DetIdle /\ PipeIdle /\ ExtIdle
    /\ \E w \in SolveWorlds, kind \in {"position", "velocity"}, js \in BOOLEAN,
          iterations \in 1..MaxIterations : SolveCall(w, kind, js, iterations)

NextSolve ==
    \/ \E w \in Workers : WorkerStep(w)
    \/ ResolveBegin(1)
    \/ SolveDispatch(1)
    \/ SolveWait(1)
    \/ SolveReturn(1)
    \/ \E t \in Clients : ClientProgress(t)
    \/ \E t \in Clients : WaitVectorNext(t)
    \/ \E t \in Clients : SpuriousWake(t)

SpecSolve == InitSolve /\ [][NextSolve]_vars

(***************************************************************************)
(* SpecPhysics: up to MaxUpdates calls of PhysicsSystem::Update, each with *)
(* any of the dt arguments, on each world, with no job system set.         *)
(***************************************************************************)
InitPhysics ==
    /\ JsInit /\ DetIdle /\ PipeIdle /\ SolveIdle /\ ExtIdle
    /\ \E w \in PhysWorlds, joints \in JointLists, substeps \in 0..MaxSubsteps :
          /\ tfStorage = w.tf /\ rbStorage = w.rb /\ aabbStorage = w.aabb
          /\ jointStorage = joints
          /\ settings = SettingsOf(substeps, 1)
          /\ created = w /\ atCall = w
    /\ m_events = <<>> /\ m_jobSystem = FALSE /\ env = Gravity
    /\ upc = "idle" /\ usub = 0 /\ dt = 0 /\ ucalls = 0 /\ phases = <<>>

NextPhysics ==
    \/ \E d \in UpdateDts : UpdateCall(d)
    \/ PhysIntegrate
    \/ PhysSync
    \/ PhysDetect
    \/ PhysSolverCall
    \/ ResolveBegin(1)
    \/ PhysSolverReturn
    \/ PhysConstraints
    \/ PhysUpdateVelocities

SpecPhysics == InitPhysics /\ [][NextPhysics]_vars

(***************************************************************************)
(* SpecPhysicsPar: one call of PhysicsSystem::Update on a world of four    *)
(* boxes, with or without a job system; the jobs that ExecuteIslands       *)
(* dispatches are run by the workers in any interleaving.                  *)
(***************************************************************************)
\* The worlds: two pairs of overlapping boxes (two islands) or a chain of
\* four (one island), the first box static or not; or two boxes apart.
ParWorlds ==
    {SolveWorld(static0, 0, 0, 0, bridge) : static0 \in BOOLEAN, bridge \in BOOLEAN}
        \cup {PhysWorld(0, 0, F(4), 0)}

\* The jobs of a run: each substep calls two solvers, each of which
\* dispatches one job for each of the two islands.
JobsOfRun(substeps) == 4 * Max(1, substeps)

InitPhysicsPar ==
    /\ JsInit /\ DetIdle /\ PipeIdle /\ SolveIdle /\ ExtIdle
    /\ \E w \in ParWorlds, substeps \in 0..MaxSubsteps, js \in BOOLEAN :
          /\ js => JobsOfRun(substeps) <= MaxUpdateJobs
          /\ tfStorage = w.tf /\ rbStorage = w.rb /\ aabbStorage = w.aabb
          /\ jointStorage = <<>>
          /\ settings = SettingsOf(substeps, 1)
          /\ m_jobSystem = js
          /\ created = w /\ atCall = w
    /\ m_events = <<>> /\ env = DefaultEnv
    /\ upc = "idle" /\ usub = 0 /\ dt = 0 /\ ucalls = MaxUpdates - 1 /\ phases = <<>>

NextPhysicsPar ==
    \/ \E d \in {F(0 - 1), 0, Lit(1, 4)} : UpdateCall(d)
    \/ PhysIntegrate
    \/ PhysSync
    \/ PhysDetect
    \/ PhysSolverCall
    \/ ResolveBegin(1)
    \/ SolveDispatch(1)
    \/ SolveWait(1)
    \/ SolveReturn(1)
    \/ PhysSolverReturn
    \/ PhysConstraints
    \/ PhysUpdateVelocities
    \/ \E w \in Workers : WorkerStep(w)
    \/ \E t \in Clients : ClientProgress(t)
    \/ \E t \in Clients : WaitVectorNext(t)
    \/ \E t \in Clients : SpuriousWake(t)

SpecPhysicsPar == InitPhysicsPar /\ [][NextPhysicsPar]_vars

(***************************************************************************)
(* SpecEntry: the solver entry points called one after the other on a      *)
(* world of two overlapping boxes tied by a distance joint: ResolvePosition*)
(* and ResolveVelocity (without a job system), the raw-array Resolve and    *)
(* ConstraintResolutionSystem::Resolve.                                    *)
(***************************************************************************)
\* ResolvePosition(events, world, nullptr) or ResolveVelocity(events, world,
\* nullptr) is called; ResolveBegin runs it.
EntrySolverCall(kind) ==
    /\ upc = "off" /\ spc = "off"
    /\ ucalls < MaxUpdates
    /\ spc' = "call"
    /\ solver' = kind
    /\ atCall' = [tf |-> tfStorage, rb |-> rbStorage, aabb |-> aabbStorage]
    /\ contacts' = <<>> /\ islands' = <<>> /\ islandHandles' = <<>> /\ solveLog' = <<>>
    /\ UNCHANGED ipc
    /\ UNCHANGED <<m_events, m_jobSystem, settings, env, upc, usub, dt, ucalls, created, phases>>
    /\ UNCHANGED ecsVars
    /\ UNCHANGED <<jsVars, detVars, pipeVars, extVars>>

\* The solver has returned to its caller.
EntrySolverReturn ==
    /\ upc = "off" /\ spc = "done"
    /\ spc' = "off"
    /\ ucalls' = ucalls + 1
    /\ UNCHANGED <<contacts, islands, ipc, solver, islandHandles, solveLog>>
    /\ UNCHANGED <<m_events, m_jobSystem, settings, env, upc, usub, dt, created, atCall, phases>>
    /\ UNCHANGED ecsVars
    /\ UNCHANGED <<jsVars, detVars, pipeVars, extVars>>

\* CollisionResolutionSystem::Resolve(events, transforms, bodies) on the
\* arrays of the world's transforms and bodies.
EntryRawResolve ==
    /\ upc = "off" /\ spc = "off"
    /\ ucalls < MaxUpdates
    /\ LET st == RawResolve(Live, m_events)
       IN tfStorage' = st.tf /\ rbStorage' = st.rb
    /\ solver' = "raw"
    /\ atCall' = [tf |-> tfStorage, rb |-> rbStorage, aabb |-> aabbStorage]
    /\ ucalls' = ucalls + 1
    /\ UNCHANGED <<aabbStorage, jointStorage>>
    /\ UNCHANGED <<contacts, islands, ipc, spc, islandHandles, solveLog>>
    /\ UNCHANGED <<m_events, m_jobSystem, settings, env, upc, usub, dt, created, phases>>
    /\ UNCHANGED <<jsVars, detVars, pipeVars, extVars>>

\* ConstraintResolutionSystem::Resolve(world, d)
EntryConstraints(d) ==
    /\ upc = "off" /\ spc = "off"
    /\ ucalls < MaxUpdates
    /\ LET st == ResolveConstraints(Live, jointStorage, d, settings)
       IN tfStorage' = st.tf /\ rbStorage' = st.rb
    /\ solver' = "joints"
    /\ dt' = d
    /\ atCall' = [tf |-> tfStorage, rb |-> rbStorage, aabb |-> aabbStorage]
    /\ ucalls' = ucalls + 1
    /\ UNCHANGED <<aabbStorage, jointStorage>>
    /\ UNCHANGED <<contacts, islands, ipc, spc, islandHandles, solveLog>>
    /\ UNCHANGED <<m_events, m_jobSystem, settings, env, upc, usub, created, phases>>
    /\ UNCHANGED <<jsVars, detVars, pipeVars, extVars>>

\* The worlds: box 0 at the origin and box 1 overlapping it from above,
\* each static (invMass == 0) or dynamic, box 1 at rest or falling.
EntryWorld(static0, static1, y1, v1y) ==
    [tf |-> [e \in 0..1 |-> IF e = 0 THEN TransformAt(0, 0) ELSE TransformAt(0, y1)],
     rb |-> [e \in 0..1 |->
                IF e = 0 THEN (IF static0 THEN StaticBody ELSE DefaultBody)
                ELSE [(IF static1 THEN StaticBody ELSE DefaultBody) EXCEPT !.vy = v1y]],
     aabb |-> [e \in 0..1 |-> IF e = 0 THEN BoxAt(0, 0, F(2), F(1))
                              ELSE BoxAt(0, y1, F(1), F(1))]]

EntryWorlds ==
    {EntryWorld(static0, static1, y1, v1y) :
        static0 \in BOOLEAN, static1 \in BOOLEAN, y1 \in {F(1), F(1) + 2},
        v1y \in {F(0 - 1), 0}}

InitEntry ==
    /\ JsInit /\ DetIdle /\ PipeIdle /\ SolveIdle /\ ExtIdle
    /\ \E w \in EntryWorlds, target \in {F(1), F(2)}, iterations \in 1..MaxIterations :
          /\ tfStorage = w.tf /\ rbStorage = w.rb /\ aabbStorage = w.aabb
          /\ jointStorage = <<[entityA |-> 0, entityB |-> 1, targetDistance |-> target,
                               compliance |-> 0]>>
          /\ m_events = EventsOf(w.aabb)
          /\ settings = SettingsOf(1, iterations)
          /\ created = w /\ atCall = w
    /\ m_jobSystem = FALSE /\ env = DefaultEnv
    /\ upc = "off" /\ usub = 0 /\ dt = 0 /\ ucalls = 0 /\ phases = <<>>

NextEntry ==
    \/ \E kind \in {"position", "velocity"} : EntrySolverCall(kind)
    \/ ResolveBegin(1)
    \/ EntrySolverReturn
    \/ EntryRawResolve
    \/ \E d \in {0, Lit(1, 4)} : EntryConstraints(d)

SpecEntry == InitEntry /\ [][NextEntry]_vars

(***************************************************************************)
(* Claims about BuildIslands.                                              *)
(***************************************************************************)
\* The entities that are an endpoint of a contact of island i.
IslandBodies(i) ==
    UNION {{contacts[islands[i][j]].entityA, contacts[islands[i][j]].entityB} :
              j \in 1..Len(islands[i])}

\* The places <<island, position>> that hold contact k.
PlacesOf(k) ==
    {p \in UNION {{<<i, j>> : j \in 1..Len(islands[i])} : i \in 1..Len(islands)} :
        islands[p[1]][p[2]] = k}

\* C11: when BuildIslands has returned, every contact is in exactly one
\* island, and no entity is an endpoint of contacts of two different
\* islands.
C11_IslandsDisjoint ==
    ipc = "built" =>
        /\ \A k \in 1..Len(contacts) : Cardinality(PlacesOf(k)) = 1
        /\ \A i, j \in 1..Len(islands) :
              i # j => IslandBodies(i) \cap IslandBodies(j) = {}

\* Two islands after a call in which an island holds several contacts that
\* share an entity.
C11_Witness ==
    /\ ipc = "built"
    /\ Len(islands) = 2
    /\ \E i \in 1..Len(islands) :
          /\ Len(islands[i]) >= 2
          /\ Cardinality(IslandBodies(i)) >= 3

\* The entities named by the contacts, and those an entity reaches along
\* contacts in at most n steps.
ContactEntities ==
    UNION {{contacts[k].entityA, contacts[k].entityB} : k \in 1..Len(contacts)}
Neighbours(S) ==
    S \cup UNION {{contacts[k].entityA, contacts[k].entityB} :
                     k \in {k \in 1..Len(contacts) :
                               contacts[k].entityA \in S \/ contacts[k].entityB \in S}}
RECURSIVE Reach(_, _)
Reach(S, n) == IF n = 0 THEN S ELSE Reach(Neighbours(S), n - 1)
Components == {Reach({e}, NumEntities) : e \in ContactEntities}

\* C12: the number of islands BuildIslands returns is the number of
\* connected components of the graph of the contacts.
C12_IslandsAreComponents ==
    ipc = "built" => Len(islands) = Cardinality(Components)

\* A call whose contacts form two components, one of them of three entities
\* or more.
C12_Witness ==
    /\ ipc = "built"
    /\ Cardinality(Components) = 2
    /\ \E c \in Components : Cardinality(c) >= 3
    /\ Len(islands) = 2

(***************************************************************************)
(* Claims about ExecuteIslands.                                            *)
(***************************************************************************)
\* The jobs that the Dispatch of ExecuteIslands has scheduled.
IslandJobs == {id \in Ids : id < nextId /\ body[id].kind = "islands"}

\* The entities whose Transform or RigidBody the job reads or writes: the
\* endpoints of the contacts of its islands.
JobBodies(id) ==
    UNION {IslandBodies(i) : i \in (body[id].first + 1)..body[id].last}

\* The jobs that have solved island i.
SolversOf(i) == {k \in 1..Len(solveLog) : solveLog[k][2] = i}

\* C13: with a job system and at least two islands, no island is solved
\* twice and, when the solver call returns, each island has been solved by
\* one job; two jobs of the dispatch never touch the Transform or the
\* RigidBody of the same entity.
C13_IslandJobsDisjoint ==
    m_jobSystem /\ Len(islands) >= 2 =>
        /\ \A i \in 1..Len(islands) : Cardinality(SolversOf(i)) <= 1
        /\ spc = "done" =>
              \A i \in 1..Len(islands) :
                 \E k \in SolversOf(i) : solveLog[k][1] \in IslandJobs
        /\ \A a, b \in IslandJobs : a # b => JobBodies(a) \cap JobBodies(b) = {}

\* Two workers are each about to run the body of a job of the dispatch.
C13_Witness ==
    /\ m_jobSystem /\ Len(islands) >= 2
    /\ wpc[1] = "execute" /\ wpc[2] = "execute"
    /\ {wjob[1], wjob[2]} \subseteq IslandJobs
    /\ wjob[1] # wjob[2]

\* C14: when a solver call that dispatched its islands returns, the
\* transforms and the bodies are those that the same call leaves without a
\* job system, solving the islands in turn on the caller.
C14_ParallelSolveEqualsSequential ==
    spc = "done" /\ m_jobSystem /\ Len(islands) >= 2 =>
        [tf |-> tfStorage, rb |-> rbStorage]
            = ResolveOn([tf |-> atCall.tf, rb |-> atCall.rb], m_events, aabbStorage,
                        solver, settings)

\* A call has returned whose second island was solved first, by a job, and
\* which changed the bodies of both islands.
C14_Witness ==
    /\ spc = "done" /\ Len(solveLog) = 2
    /\ solveLog[1] = <<2, 2>> /\ solveLog[2] = <<1, 1>>
    /\ \A i \in 1..2 : \E e \in IslandBodies(i) :
          tfStorage[e] # atCall.tf[e] \/ rbStorage[e] # atCall.rb[e]

(***************************************************************************)
(* Claims about PhysicsSystem::Update.                                     *)
(***************************************************************************)
\* The entities created with invMass == 0.
CreatedStatic == {e \in DOMAIN created.rb : created.rb[e].invMass = 0}

\* Update is not running.
Returned == upc = "idle"

\* C15: after any sequence of Update calls, the transform of a body created
\* with invMass == 0 has the x, y and rotation it was created with,
\* whatever its mass field holds.
C15_StaticNeverDisplaced ==
    Returned => \A e \in CreatedStatic : tfStorage[e] = created.tf[e]

\* C16: after any sequence of Update calls, a body created with
\* invMass == 0 and zero velocities has vx, vy and angularVelocity zero,
\* whatever its invInertia field holds.
C16_StaticNeverGivenImpulse ==
    Returned =>
        \A e \in CreatedStatic :
            created.rb[e].vx = 0 /\ created.rb[e].vy = 0 /\ created.rb[e].angularVelocity = 0
                => rbStorage[e].vx = 0 /\ rbStorage[e].vy = 0
                   /\ rbStorage[e].angularVelocity = 0

\* The box of the half extents entity e was created with, centred on its
\* transform.
Footprint(e) ==
    BoxAt(tfStorage[e].x, tfStorage[e].y,
          (created.aabb[e].maxX - created.aabb[e].minX) \div 2,
          (created.aabb[e].maxY - created.aabb[e].minY) \div 2)

\* C17: whenever Update has returned, the AABB of every dynamic body
\* (invMass > 0) that has a transform and an AABB is the footprint of its
\* transform.
C17_AabbFollowsTransform ==
    Returned /\ ucalls > 0 =>
        \A e \in DOMAIN aabbStorage \cap DOMAIN tfStorage \cap DOMAIN rbStorage :
            FGt(rbStorage[e].invMass, 0) => aabbStorage[e] = Footprint(e)

\* C18: an Update called with a dt that is not finite, negative or zero
\* leaves every Transform, RigidBody and AABB as it was at the call.
C18_BadDtIsNoOp ==
    Returned /\ ucalls > 0 /\ (~IsFinite(dt) \/ FLe(dt, 0)) =>
        [tf |-> tfStorage, rb |-> rbStorage, aabb |-> aabbStorage] = atCall

(***************************************************************************)
(* Claims about the phases of PhysicsSystem::Update.                       *)
(***************************************************************************)
\* The phases of a substep in which Detect reported events, and of one in
\* which it reported none.
SubstepWithContacts ==
    <<"integrate", "sync", "detect", "solvePosition", "solveJoints", "reconstruct",
      "solveVelocity">>
SubstepWithoutContacts == <<"integrate", "sync", "detect", "solveJoints", "reconstruct">>

\* log is n whole substeps, one after the other.
RECURSIVE WholeSubsteps(_, _)
WholeSubsteps(log, n) ==
    IF n = 0 THEN log = <<>>
    ELSE \E chunk \in {SubstepWithContacts, SubstepWithoutContacts} :
            /\ Len(log) >= Len(chunk)
            /\ SubSeq(log, 1, Len(chunk)) = chunk
            /\ WholeSubsteps(SubSeq(log, Len(chunk) + 1, Len(log)), n - 1)

\* The body of every job scheduled so far has run, and the calling thread is
\* in no Wait.
AllJobsWaitedFor ==
    /\ \A id \in AllIds : id < nextId => execCount[id] = 1
    /\ \A w \in Workers : wpc[w] # "execute"
    /\ cpc[1] = "idle"

\* C19: an Update that passes its dt guard has run, when it returns,
\* max(1, substeps) substeps, each the phases integrate, sync, detect, solve
\* position, solve joints, reconstruct velocities, solve velocity in this
\* order, the two solver phases present exactly when Detect reported events;
\* and outside a solver call no job is outstanding, so that each phase has
\* finished, its jobs waited for, before the next begins.
C19_PhasesInOrder ==
    /\ Returned /\ ucalls = MaxUpdates /\ IsFinite(dt) /\ ~FLt(dt, 0)
          => WholeSubsteps(phases, Max(1, settings.substeps))
    /\ spc \in {"call", "dispatch", "done"} => m_events # <<>>
    /\ upc = "constraints"
          => (m_events # <<>> <=> phases[Len(phases)] = "solvePosition")
    /\ upc = "idle" /\ phases # <<>>
          => (m_events # <<>> <=> phases[Len(phases)] = "solveVelocity")
    /\ upc # "off" /\ spc \in {"off", "done"} => AllJobsWaitedFor

\* An Update with a job system has returned after one substep in which both
\* solvers dispatched a job for each of two islands.
C19_Witness ==
    /\ Returned /\ ucalls = MaxUpdates /\ m_jobSystem
    /\ nextId = 5
    /\ phases = SubstepWithContacts

(***************************************************************************)
(* Claims about the solver entry points.                                   *)
(***************************************************************************)
\* An entry point has returned, and both bodies had invMass == 0 at the call.
ReturnedOnStatics ==
    /\ upc = "off" /\ spc = "off" /\ ucalls > 0
    /\ \A e \in DOMAIN atCall.rb : atCall.rb[e].invMass = 0

\* C20: a solver entry point called on a contact and a joint between two
\* bodies with invMass == 0 returns with every transform and every body as
\* it was at the call; no NaN or infinity of a division by the zero
\* inverse-mass sum is stored.
C20_BothStaticIsNoConstraint ==
    ReturnedOnStatics => tfStorage = atCall.tf /\ rbStorage = atCall.rb


(***************************************************************************)
(* SpecRaw: CollisionResolutionSystem::Resolve(events, transforms, bodies) *)
(* called on vectors of any two lengths up to MaxRawLen, with events whose *)
(* indices run up to MaxRawLen (one past the longest vector).              *)
(***************************************************************************)
\* The values an element read past the end of bodies may hold: the read is
\* undefined behaviour, and the build yields whatever lies there.
PastTheEnd ==
    {DefaultBody, StaticBody, [DefaultBody EXCEPT !.vy = F(1)],
     [DefaultBody EXCEPT !.vy = F(0 - 1)]}

\* Event `ev` has passed the test of line 502 and reaches lines 504-507.
PassesRangeTest(transforms, ev) ==
    ev.entityA \in DOMAIN transforms /\ ev.entityB \in DOMAIN transforms

\* The indices of bodies that lines 505 and 507 use for `events`.
BodiesUsed(transforms, events) ==
    UNION {{events[k].entityA, events[k].entityB} :
              k \in {i \in DOMAIN events : PassesRangeTest(transforms, events[i])}}

\* The whole call. The memory past the end of bodies that the loop uses
\* holds any values; the loop reads and writes it as if it were bodies.
RawResolveCall ==
    /\ upc = "off" /\ spc = "off"
    /\ ucalls < MaxUpdates
    /\ LET past == BodiesUsed(tfStorage, m_events) \ DOMAIN rbStorage
       IN \E beyond \in [past -> PastTheEnd] :
            LET memory == [e \in DOMAIN rbStorage \cup past |->
                              IF e \in past THEN beyond[e] ELSE rbStorage[e]]
                st == RawResolve([tf |-> tfStorage, rb |-> memory], m_events)
            IN /\ tfStorage' = st.tf
               /\ rbStorage' = [e \in DOMAIN rbStorage |-> st.rb[e]]
               /\ outOfRange' = (outOfRange \/ past # {})
    /\ solver' = "raw"
    /\ atCall' = [tf |-> tfStorage, rb |-> rbStorage, aabb |-> aabbStorage]
    /\ ucalls' = ucalls + 1
    /\ UNCHANGED <<aabbStorage, jointStorage>>
    /\ UNCHANGED <<contacts, islands, ipc, spc, islandHandles, solveLog>>
    /\ UNCHANGED <<m_events, m_jobSystem, settings, env, upc, usub, dt, created, phases>>
    /\ UNCHANGED <<jsVars, detVars, pipeVars, dtorVars, dispatchCall, worldVars>>

\* transforms of nt elements in a column, bodies of nb elements, the second
\* falling onto the first.
RawTransforms(nt) == [e \in 0..(nt - 1) |-> TransformAt(0, F(e))]
RawBodies(nb, v) == [e \in 0..(nb - 1) |-> IF e = 0 THEN DefaultBody
                                          ELSE [DefaultBody EXCEPT !.vy = v]]
RawEvent(a, b) ==
    [entityA |-> a, entityB |-> b, normalX |-> 0, normalY |-> F(1), penetration |-> F(1)]
RawEventLists ==
    LET evs == {RawEvent(a, b) : a \in 0..MaxRawLen, b \in 0..MaxRawLen}
    IN {<<e>> : e \in evs} \cup {<<e1, e2>> : e1 \in evs, e2 \in evs}

InitRaw ==
    /\ JsInit /\ DetIdle /\ PipeIdle /\ SolveIdle /\ DtorIdle /\ dispatchCall = NoDispatch /\ WorldIdle
    /\ \E nt \in 0..MaxRawLen, nb \in 0..MaxRawLen, v \in {0, F(0 - 1)},
          events \in RawEventLists :
          /\ tfStorage = RawTransforms(nt) /\ rbStorage = RawBodies(nb, v)
          /\ m_events = events
    /\ aabbStorage = <<>> /\ jointStorage = <<>>
    /\ outOfRange = FALSE
    /\ m_jobSystem = FALSE /\ settings = DefaultSettings /\ env = DefaultEnv
    /\ upc = "off" /\ usub = 0 /\ dt = 0 /\ ucalls = 0 /\ phases = <<>>
    /\ created = NoWorld /\ atCall = NoWorld

NextRaw == RawResolveCall

SpecRaw == InitRaw /\ [][NextRaw]_vars

(***************************************************************************)
(* Claims about the raw-array Resolve.                                     *)
(***************************************************************************)
\* Event `ev` is out of range for transforms or for bodies.
EventOutOfRange(transforms, bodies, ev) ==
    \/ ev.entityA \notin DOMAIN transforms \/ ev.entityB \notin DOMAIN transforms
    \/ ev.entityA \notin DOMAIN bodies \/ ev.entityB \notin DOMAIN bodies

\* C21: the raw-array Resolve never reads or writes an element outside
\* either vector, whatever the lengths of transforms and bodies; a call
\* whose events are all out of range for transforms or for bodies leaves
\* both vectors as they were.
C21_RawResolveStaysInRange ==
    /\ ~outOfRange
    /\ (/\ solver = "raw"
        /\ \A k \in DOMAIN m_events : EventOutOfRange(atCall.tf, atCall.rb, m_events[k]))
       => (tfStorage = atCall.tf /\ rbStorage = atCall.rb)

(***************************************************************************)
(* ecs::ComponentStorage<T> (include/ecs/ComponentStorage.hpp): a dense    *)
(* array of values, the dense array of their entities and the sparse map   *)
(* from entity to dense index. Dense indices count from 0 as in the code;  *)
(* element i of a vector is element i + 1 of the sequence that models it.  *)
(***************************************************************************)
EntityIds == 1..MaxEntities

EmptyStorage == [m_data |-> <<>>, m_denseToEntity |-> <<>>, m_entityToDense |-> <<>>]

\* std::unordered_map: operator[] assignment and erase.
MapPut(map, key, value) ==
    [k \in DOMAIN map \cup {key} |-> IF k = key THEN value ELSE map[k]]
MapErase(map, key) == [k \in DOMAIN map \ {key} |-> map[k]]

\* std::vector::pop_back
PopBack(vec) == SubSeq(vec, 1, Len(vec) - 1)

\* Add(id, component): an id already stored has its value overwritten in
\* place; else the value and the id are pushed and the id is mapped to the
\* new last index.
StorageAdd(s, id, component) ==
    IF id \in DOMAIN s.m_entityToDense
    THEN [s EXCEPT !.m_data[s.m_entityToDense[id] + 1] = component]
    ELSE [m_data |-> Append(s.m_data, component),
          m_denseToEntity |-> Append(s.m_denseToEntity, id),
          m_entityToDense |-> MapPut(s.m_entityToDense, id, Len(s.m_data))]

\* Get(id): a pointer to the value, here <<value>>, or nullptr, here <<>>.
StorageGet(s, id) ==
    IF id \in DOMAIN s.m_entityToDense THEN <<s.m_data[s.m_entityToDense[id] + 1]>>
    ELSE <<>>

\* Remove, lines 70-73: the last element is moved into the hole and its
\* entity is mapped to the index of the hole.
\* (A faulty variant leaves the moved entity mapped to its old index.)
SwapInStaleMap(s, index, lastIndex) ==
    [s EXCEPT !.m_data[index + 1] = s.m_data[lastIndex + 1],
              !.m_denseToEntity[index + 1] = s.m_denseToEntity[lastIndex + 1]]
SwapIn(s, index, lastIndex) ==
    LET movedId == s.m_denseToEntity[lastIndex + 1]
    IN [s EXCEPT !.m_data[index + 1] = s.m_data[lastIndex + 1],
                 !.m_denseToEntity[index + 1] = movedId,
                 !.m_entityToDense[movedId] = index]

\* Remove(id): nothing for an id not stored; else swap with the last
\* element unless it is the last, pop both arrays and erase the map entry.
StorageRemove(s, id) ==
    IF id \notin DOMAIN s.m_entityToDense THEN s
    ELSE LET index == s.m_entityToDense[id]
             lastIndex == Len(s.m_data) - 1
             swapped == IF index # lastIndex THEN SwapIn(s, index, lastIndex) ELSE s
         IN [m_data |-> PopBack(swapped.m_data),
             m_denseToEntity |-> PopBack(swapped.m_denseToEntity),
             m_entityToDense |-> MapErase(swapped.m_entityToDense, id)]

\* Size()
StorageSize(s) == Len(s.m_data)

\* The component types of the model and the values given to them.
Types == {"Transform", "AABB", "Circle"}
CircleOf(radius, offsetX) == [radius |-> radius, offsetX |-> offsetX, offsetY |-> 0]
ValuesOf(type) ==
    CASE type = "Transform" -> {TransformAt(0, 0), TransformAt(F(1), F(2))}
      [] type = "AABB" -> {BoxAt(0, 0, F(1), F(1)), BoxAt(F(3), 0, F(1), F(2))}
      [] type = "Circle" -> {CircleOf(F(1), 0), CircleOf(F(0 - 1), F(1))}

(***************************************************************************)
(* SpecStorage: Add and Remove called in any order on one                  *)
(* ComponentStorage<TransformComponent>.                                   *)
(***************************************************************************)
TheStorage == m_componentStores["Transform"]

WorldFrame ==
    /\ UNCHANGED <<jsVars, detVars, pipeVars, physVars, dtorVars, dispatchCall, outOfRange>>

StorageAddCall(id, component) ==
    /\ wops < MaxStorageOps
    /\ m_componentStores' =
          [m_componentStores EXCEPT !["Transform"] = StorageAdd(@, id, component)]
    /\ shadow' = [shadow EXCEPT !["Transform"] = MapPut(@, id, component)]
    /\ lastCall' = [op |-> "Add", types |-> <<"Transform">>, id |-> id, dt |-> 0]
    /\ storesAtCall' = m_componentStores
    /\ wops' = wops + 1
    /\ UNCHANGED <<m_nextEntity, m_entities, m_systems, added, called, viewed,
                   m_broadphaseAABBs, m_broadphaseIds>>
    /\ WorldFrame

StorageRemoveCall(id) ==
    /\ wops < MaxStorageOps
    /\ m_componentStores' =
          [m_componentStores EXCEPT !["Transform"] = StorageRemove(@, id)]
    /\ shadow' = [shadow EXCEPT !["Transform"] = MapErase(@, id)]
    /\ lastCall' = [op |-> "Remove", types |-> <<"Transform">>, id |-> id, dt |-> 0]
    /\ storesAtCall' = m_componentStores
    /\ wops' = wops + 1
    /\ UNCHANGED <<m_nextEntity, m_entities, m_systems, added, called, viewed,
                   m_broadphaseAABBs, m_broadphaseIds>>
    /\ WorldFrame

InitStorage ==
    /\ JsInit /\ DetIdle /\ PipeIdle /\ PhysIdle /\ DtorIdle /\ dispatchCall = NoDispatch /\ outOfRange = FALSE
    /\ m_nextEntity = 1 /\ m_entities = <<>> /\ m_systems = <<>> /\ added = <<>>
    /\ m_componentStores = [t \in {"Transform"} |-> EmptyStorage]
    /\ shadow = [t \in {"Transform"} |-> <<>>]
    /\ called = <<>> /\ viewed = <<>>
    /\ m_broadphaseAABBs = <<>> /\ m_broadphaseIds = <<>>
    /\ wops = 0 /\ lastCall = NoCall /\ storesAtCall = m_componentStores

NextStorage ==
    \/ \E id \in EntityIds, component \in ValuesOf("Transform") :
          StorageAddCall(id, component)
    \/ \E id \in EntityIds : StorageRemoveCall(id)

SpecStorage == InitStorage /\ [][NextStorage]_vars

(***************************************************************************)
(* Claims about ComponentStorage.                                          *)
(***************************************************************************)
\* The three containers of storage s agree: same size, and the map sends
\* exactly the ids of the dense entity array to the index that holds them.
StorageConsistent(s) ==
    /\ Len(s.m_data) = Len(s.m_denseToEntity)
    /\ Cardinality(DOMAIN s.m_entityToDense) = Len(s.m_data)
    /\ \A id \in DOMAIN s.m_entityToDense :
          /\ s.m_entityToDense[id] \in 0..(Len(s.m_denseToEntity) - 1)
          /\ s.m_denseToEntity[s.m_entityToDense[id] + 1] = id

\* The last call was a Remove of a stored element that was not the last.
RemovedNonLast ==
    /\ lastCall.op = "Remove"
    /\ lastCall.id \in DOMAIN storesAtCall["Transform"].m_entityToDense
    /\ storesAtCall["Transform"].m_entityToDense[lastCall.id] #
          Len(storesAtCall["Transform"].m_data) - 1

\* C22: after any sequence of Add and Remove the value array, the entity
\* array and the map have the same size and the map sends each stored id to
\* the dense index that holds it; Get gives the value last added for an id
\* and nothing for an id removed and not added again; and after the Remove
\* of an element that was not the last, the entity that was last is mapped
\* to the index of the removed element and still has its value.
C22_StorageStaysConsistent ==
    /\ StorageConsistent(TheStorage)
    /\ \A id \in EntityIds :
          StorageGet(TheStorage, id) =
             (IF id \in DOMAIN shadow["Transform"] THEN <<shadow["Transform"][id]>> ELSE <<>>)
    /\ RemovedNonLast =>
          LET before == storesAtCall["Transform"]
              movedId == before.m_denseToEntity[Len(before.m_data)]
          IN /\ TheStorage.m_entityToDense[movedId] = before.m_entityToDense[lastCall.id]
             /\ StorageGet(TheStorage, movedId) = StorageGet(before, movedId)
             /\ StorageGet(TheStorage, lastCall.id) = <<>>

\* A non-last element was removed from a storage of three elements that
\* were not stored in the order of their ids.
C22_Witness ==
    /\ RemovedNonLast
    /\ Len(storesAtCall["Transform"].m_data) = 3
    /\ storesAtCall["Transform"].m_denseToEntity # <<1, 2, 3>>

(***************************************************************************)
(* ecs::World (include/ecs/World.hpp, src/ecs/World.cpp): the entities,    *)
(* the storages by component type, and the calls on them.                  *)
(***************************************************************************)
\* GetComponent<T>(id): nullptr when no storage of the type is registered,
\* else the storage's Get.
GetComponent(stores, type, id) ==
    IF type \notin DOMAIN stores THEN <<>> ELSE StorageGet(stores[type], id)

\* DestroyEntity, lines 36-43: RemoveEntity(id) on every registered storage.
\* (A faulty variant removes the entity from the Transform storage only.)
RemoveFromTransformsOnly(stores, id) ==
    [t \in DOMAIN stores |-> IF t = "Transform" THEN StorageRemove(stores[t], id)
                             ELSE stores[t]]
RemoveFromStores(stores, id) ==
    [t \in DOMAIN stores |-> StorageRemove(stores[t], id)]

\* AddComponent<T>(id, value): the storage is registered on first use.
AddToStores(stores, type, id, value) ==
    MapPut(stores, type,
           StorageAdd(IF type \in DOMAIN stores THEN stores[type] ELSE EmptyStorage,
                      id, value))

\* View, lines 117-134: the index (0 for T1, 1 for T2, ...) of the first
\* storage of strictly least size, found by a scan from T1.
RECURSIVE SmallestFrom(_, _, _, _)
SmallestFrom(sizes, k, minSize, smallestIndex) ==
    IF k > Len(sizes) THEN smallestIndex
    ELSE IF sizes[k] < minSize THEN SmallestFrom(sizes, k + 1, sizes[k], k - 1)
    ELSE SmallestFrom(sizes, k + 1, minSize, smallestIndex)
SmallestIndex(stores, types) ==
    SmallestFrom([k \in DOMAIN types |-> StorageSize(stores[types[k]])], 2,
                 StorageSize(stores[types[1]]), 0)

\* View, process(id), lines 137-151: the callback is called when the entity
\* has a component of T1, of T2 and of every further type.
\* (A faulty variant tests T1 only.)
ProcessTestsFirstOnly(stores, types, id) == GetComponent(stores, types[1], id) # <<>>
Process(stores, types, id) ==
    /\ GetComponent(stores, types[1], id) # <<>>
    /\ GetComponent(stores, types[2], id) # <<>>
    /\ \A k \in 3..Len(types) : GetComponent(stores, types[k], id) # <<>>

\* View<T1, T2, TRest...>(fn): the ids fn is called with, in call order.
\* Nothing when a storage is missing; else the ids of T2's storage when it
\* is the smallest and of T1's storage otherwise (lines 153-161) that pass
\* process.
ViewIds(stores, types) ==
    IF \E k \in DOMAIN types : types[k] \notin DOMAIN stores THEN <<>>
    ELSE LET iterated == IF SmallestIndex(stores, types) = 1 THEN stores[types[2]]
                         ELSE stores[types[1]]
             Passes(id) == Process(stores, types, id)
         IN SelectSeq(iterated.m_denseToEntity, Passes)

\* The lists of distinct types a View is asked for.
ViewTypes ==
    {<<a, b>> : a \in Types, b \in Types} \cup
    {<<a, b, c>> : a \in Types, b \in Types, c \in Types}
DistinctViewTypes ==
    {types \in ViewTypes : \A i, j \in DOMAIN types : i # j => types[i] # types[j]}

\* PhysicsSystem::Update, lines 124-129: the box of a circle collider.
CircleBox(tf, circle) ==
    LET radius == FMax(0, circle.radius)
        cx == FAdd(tf.x, circle.offsetX)
        cy == FAdd(tf.y, circle.offsetY)
    IN [minX |-> FSub(cx, radius), minY |-> FSub(cy, radius),
        maxX |-> FAdd(cx, radius), maxY |-> FAdd(cy, radius)]

\* Lines 113-122: circle j is left out when its entity has an AABB or has
\* no Transform.
\* (A faulty variant leaves out only the circles without Transform.)
CircleSkippedNoTransformOnly(stores, id) == GetComponent(stores, "Transform", id) = <<>>
CircleSkipped(stores, id) ==
    \/ GetComponent(stores, "AABB", id) # <<>>
    \/ GetComponent(stores, "Transform", id) = <<>>

\* Lines 81-131: the broadphase input gathered from the world: every AABB
\* in storage order, then the box of every circle that is not left out.
RECURSIVE GatherCircles(_, _, _)
GatherCircles(stores, input, j) ==
    IF j > Len(stores["Circle"].m_data) THEN input
    ELSE LET id == stores["Circle"].m_denseToEntity[j]
         IN IF CircleSkipped(stores, id) THEN GatherCircles(stores, input, j + 1)
            ELSE GatherCircles(stores,
                    [aabbs |-> Append(input.aabbs,
                                      CircleBox(GetComponent(stores, "Transform", id)[1],
                                                stores["Circle"].m_data[j])),
                     ids |-> Append(input.ids, id)],
                    j + 1)
BroadphaseInput(stores) ==
    LET boxes == IF "AABB" \in DOMAIN stores
                 THEN [aabbs |-> stores["AABB"].m_data, ids |-> stores["AABB"].m_denseToEntity]
                 ELSE [aabbs |-> <<>>, ids |-> <<>>]
    IN IF "Circle" \in DOMAIN stores /\ "Transform" \in DOMAIN stores
       THEN GatherCircles(stores, boxes, 1)
       ELSE boxes

(***************************************************************************)
(* SpecWorld: a world populated with components, then up to MaxWorldOps    *)
(* calls of CreateEntity, DestroyEntity, AddComponent, View and the gather *)
(* of the broadphase input.                                                *)
(***************************************************************************)
WorldCall(op, types, id) ==
    /\ wops < MaxWorldOps
    /\ wops' = wops + 1
    /\ lastCall' = [op |-> op, types |-> types, id |-> id, dt |-> 0]
    /\ storesAtCall' = m_componentStores
    /\ UNCHANGED <<m_systems, added, called>>
    /\ WorldFrame

CreateEntity ==
    /\ m_nextEntity <= MaxEntities
    /\ WorldCall("CreateEntity", <<>>, m_nextEntity)
    /\ m_nextEntity' = m_nextEntity + 1
    /\ m_entities' = Append(m_entities, m_nextEntity)
    /\ UNCHANGED <<m_componentStores, shadow, viewed, m_broadphaseAABBs, m_broadphaseIds>>

DestroyEntity(id) ==
    /\ WorldCall("DestroyEntity", <<>>, id)
    /\ m_entities' = SelectSeq(m_entities, LAMBDA e : e # id)
    /\ m_componentStores' = RemoveFromStores(m_componentStores, id)
    /\ shadow' = [t \in DOMAIN shadow |-> MapErase(shadow[t], id)]
    /\ UNCHANGED <<m_nextEntity, viewed, m_broadphaseAABBs, m_broadphaseIds>>

AddComponent(type, id, value) ==
    /\ WorldCall("AddComponent", <<type>>, id)
    /\ m_componentStores' = AddToStores(m_componentStores, type, id, value)
    /\ shadow' = MapPut(shadow, type,
                        MapPut(IF type \in DOMAIN shadow THEN shadow[type] ELSE <<>>,
                               id, value))
    /\ UNCHANGED <<m_nextEntity, m_entities, viewed, m_broadphaseAABBs, m_broadphaseIds>>

View(types) ==
    /\ WorldCall("View", types, 0)
    /\ viewed' = ViewIds(m_componentStores, types)
    /\ UNCHANGED <<m_nextEntity, m_entities, m_componentStores, shadow,
                   m_broadphaseAABBs, m_broadphaseIds>>

GatherBroadphase ==
    /\ WorldCall("Gather", <<>>, 0)
    /\ LET input == BroadphaseInput(m_componentStores)
       IN m_broadphaseAABBs' = input.aabbs /\ m_broadphaseIds' = input.ids
    /\ UNCHANGED <<m_nextEntity, m_entities, m_componentStores, shadow, viewed>>

\* The world after n CreateEntity calls and an AddComponent<T>(id, value)
\* for every id of has[T], made in the order of the ids.
ValueFor(type, id) ==
    CASE type = "Transform" -> TransformAt(F(id), F(2))
      [] type = "AABB" -> BoxAt(F(id), 0, F(1), F(1))
      [] type = "Circle" -> CircleOf(F(id % 2), F(1))
RECURSIVE AddInOrder(_, _, _, _)
AddInOrder(s, type, ids, id) ==
    IF id > MaxEntities THEN s
    ELSE AddInOrder(IF id \in ids THEN StorageAdd(s, id, ValueFor(type, id)) ELSE s,
                    type, ids, id + 1)

InitWorld ==
    /\ JsInit /\ DetIdle /\ PipeIdle /\ PhysIdle /\ DtorIdle /\ dispatchCall = NoDispatch /\ outOfRange = FALSE
    /\ \E n \in 0..MaxEntities :
          /\ m_nextEntity = n + 1
          /\ m_entities = [i \in 1..n |-> i]
          /\ \E has \in [Types -> SUBSET (1..n)] :
                /\ m_componentStores =
                      [t \in {u \in Types : has[u] # {}} |->
                          AddInOrder(EmptyStorage, t, has[t], 1)]
                /\ shadow = [t \in {u \in Types : has[u] # {}} |->
                                [id \in has[t] |-> ValueFor(t, id)]]
    /\ m_systems = <<>> /\ added = <<>> /\ called = <<>> /\ viewed = <<>>
    /\ m_broadphaseAABBs = <<>> /\ m_broadphaseIds = <<>>
    /\ wops = 0 /\ lastCall = NoCall /\ storesAtCall = m_componentStores

NextWorld ==
    \/ CreateEntity
    \/ \E id \in EntityIds : DestroyEntity(id)
    \/ \E type \in Types, id \in EntityIds :
          \E value \in ValuesOf(type) : AddComponent(type, id, value)
    \/ \E types \in DistinctViewTypes : View(types)
    \/ GatherBroadphase

SpecWorld == InitWorld /\ [][NextWorld]_vars

(***************************************************************************)
(* Claims about ecs::World and the broadphase input.                       *)
(***************************************************************************)
\* C23: after DestroyEntity(e) GetComponent<T>(e) is null for every type T,
\* no storage is registered or dropped, and every other entity has the
\* components it had, with the values they had.
C23_DestroyRemovesFromEveryStorage ==
    lastCall.op = "DestroyEntity" =>
       /\ DOMAIN m_componentStores = DOMAIN storesAtCall
       /\ \A type \in Types :
             /\ GetComponent(m_componentStores, type, lastCall.id) = <<>>
             /\ \A id \in EntityIds \ {lastCall.id} :
                   GetComponent(m_componentStores, type, id) =
                      GetComponent(storesAtCall, type, id)

\* The entity destroyed had a component in two storages, in one of them not
\* as the last element, and another entity had components too.
C23_Witness ==
    /\ lastCall.op = "DestroyEntity"
    /\ Cardinality({t \in Types : GetComponent(storesAtCall, t, lastCall.id) # <<>>}) >= 2
    /\ \E t \in DOMAIN storesAtCall :
          /\ lastCall.id \in DOMAIN storesAtCall[t].m_entityToDense
          /\ storesAtCall[t].m_entityToDense[lastCall.id] # Len(storesAtCall[t].m_data) - 1
    /\ \E id \in EntityIds \ {lastCall.id}, t \in Types :
          GetComponent(m_componentStores, t, id) # <<>>

\* The entities that have a component of every type of `types`.
HaveAll(stores, types) ==
    {id \in EntityIds : \A k \in DOMAIN types : GetComponent(stores, types[k], id) # <<>>}

\* C24: View<T1, T2, ...> calls the callback exactly once for every entity
\* that has all the types asked for and for no other entity, whichever
\* storage is the smallest, and not at all when a storage asked for is not
\* registered.
C24_ViewIsTheIntersection ==
    lastCall.op = "View" =>
       /\ {viewed[k] : k \in DOMAIN viewed} = HaveAll(m_componentStores, lastCall.types)
       /\ Len(viewed) = Cardinality(HaveAll(m_componentStores, lastCall.types))
       /\ (\E k \in DOMAIN lastCall.types : lastCall.types[k] \notin DOMAIN m_componentStores)
             => viewed = <<>>

\* A View of three types whose third storage is strictly the smallest, that
\* called the callback, while an entity of the first storage lacks the
\* third type.
C24_Witness ==
    /\ lastCall.op = "View" /\ Len(lastCall.types) = 3
    /\ \A k \in 1..3 : lastCall.types[k] \in DOMAIN m_componentStores
    /\ SmallestIndex(m_componentStores, lastCall.types) = 2
    /\ viewed # <<>>
    /\ \E id \in EntityIds :
          /\ GetComponent(m_componentStores, lastCall.types[1], id) # <<>>
          /\ GetComponent(m_componentStores, lastCall.types[3], id) = <<>>

\* The positions of entity id in the broadphase input.
InputSlots(id) == {k \in DOMAIN m_broadphaseIds : m_broadphaseIds[k] = id}

\* The broadphase input holds what the claim says, where Box(tf, circle) is
\* the box a circle collider stands for.
BroadphaseInputIs(Box(_, _)) ==
    /\ Len(m_broadphaseIds) = Len(m_broadphaseAABBs)
    /\ \A id \in EntityIds :
          LET aabb == GetComponent(m_componentStores, "AABB", id)
              circle == GetComponent(m_componentStores, "Circle", id)
              tf == GetComponent(m_componentStores, "Transform", id)
          IN IF aabb # <<>>
             THEN \E k \in DOMAIN m_broadphaseIds :
                     InputSlots(id) = {k} /\ m_broadphaseAABBs[k] = aabb[1]
             ELSE IF circle # <<>> /\ tf # <<>>
             THEN \E k \in DOMAIN m_broadphaseIds :
                     InputSlots(id) = {k} /\ m_broadphaseAABBs[k] = Box(tf[1], circle[1])
             ELSE InputSlots(id) = {}
    /\ \A k \in DOMAIN m_broadphaseIds : m_broadphaseIds[k] \in EntityIds

\* The box from center - radius to center + radius, the center being the
\* transform plus the circle's offset.
CenterPlusMinus(tf, radius, circle) ==
    [minX |-> FSub(FAdd(tf.x, circle.offsetX), radius),
     minY |-> FSub(FAdd(tf.y, circle.offsetY), radius),
     maxX |-> FAdd(FAdd(tf.x, circle.offsetX), radius),
     maxY |-> FAdd(FAdd(tf.y, circle.offsetY), radius)]
RadiusBox(tf, circle) == CenterPlusMinus(tf, circle.radius, circle)
ClampedRadiusBox(tf, circle) ==
    CenterPlusMinus(tf, IF FLt(circle.radius, 0) THEN 0 ELSE circle.radius, circle)

\* C28 as stated: the broadphase input holds every AABB owner once with its
\* AABB, every owner of a circle and a transform without AABB once with the
\* box center +/- radius, and nobody else; both lists have the same length.
C28_BroadphaseInputAsStated ==
    lastCall.op = "Gather" => BroadphaseInputIs(RadiusBox)

\* C28, amended: the same with the box center +/- max(0, radius).
C28_BroadphaseInputClamped ==
    lastCall.op = "Gather" => BroadphaseInputIs(ClampedRadiusBox)

\* The input was gathered from a world with an AABB owner, a circle owner
\* that has an AABB too, a circle owner with transform and no AABB, and a
\* circle of negative radius that went into the input.
C28_Witness ==
    /\ lastCall.op = "Gather"
    /\ \E a, b \in EntityIds :
          /\ a # b
          /\ GetComponent(m_componentStores, "AABB", a) # <<>>
          /\ GetComponent(m_componentStores, "Circle", a) # <<>>
          /\ GetComponent(m_componentStores, "AABB", b) = <<>>
          /\ GetComponent(m_componentStores, "Circle", b) # <<>>
          /\ GetComponent(m_componentStores, "Transform", b) # <<>>
          /\ FLt(GetComponent(m_componentStores, "Circle", b)[1].radius, 0)
          /\ InputSlots(b) # {}

(***************************************************************************)
(* SpecDispatch: one call of JobSystem::Dispatch(jobCount, batchSize, job) *)
(* by a client thread, while the workers run the jobs it schedules.        *)
(***************************************************************************)
\* Dispatch is entered: lines 266-270 return no handle for jobCount == 0 or
\* batchSize == 0; else the loop starts at i = 0.
DispatchCall(t, jobCount, batchSize) ==
    /\ dispatchCall.pc = "off"
    /\ cpc[t] = "idle"
    /\ dispatchCall' = [pc |-> IF jobCount = 0 \/ batchSize = 0 THEN "returned" ELSE "loop",
                        thread |-> t, jobCount |-> jobCount, batchSize |-> batchSize,
                        i |-> 0, handles |-> <<>>]
    /\ UNCHANGED <<jsVars, detVars, pipeVars, physVars, dtorVars, outOfRange, worldVars>>

\* The loop body, lines 272-278: while i < jobCount the chunk
\* [i, min(i + batchSize, jobCount)) is scheduled as one function job.
DispatchSchedule(t) ==
    /\ dispatchCall.pc = "loop" /\ dispatchCall.thread = t
    /\ dispatchCall.i < dispatchCall.jobCount
    /\ ScheduleAllocId(t, [kind |-> "range", throws |-> FALSE,
                           first |-> dispatchCall.i,
                           last |-> DispatchEnd(dispatchCall.i, dispatchCall.batchSize,
                                                dispatchCall.jobCount)])

\* The loop test fails: return handles.
DispatchReturn(t) ==
    /\ dispatchCall.pc = "loop" /\ dispatchCall.thread = t
    /\ cpc[t] = "idle"
    /\ dispatchCall.i >= dispatchCall.jobCount
    /\ dispatchCall' = [dispatchCall EXCEPT !.pc = "returned"]
    /\ UNCHANGED <<jsVars, detVars, pipeVars, physVars, dtorVars, outOfRange, worldVars>>

InitDispatch == Init

NextDispatch ==
    \/ \E w \in Workers : WorkerStep(w)
    \/ \E t \in Clients, jobCount \in 0..MaxJobCount, batchSize \in 0..MaxBatchSize :
          DispatchCall(t, jobCount, batchSize)
    \/ \E t \in Clients : DispatchSchedule(t)
    \/ \E t \in Clients : ScheduleEnqueue(t)
    \/ \E t \in Clients : DispatchReturn(t)

SpecDispatch == InitDispatch /\ [][NextDispatch]_vars

(***************************************************************************)
(* Claims about Dispatch.                                                  *)
(***************************************************************************)
\* The chunk [first, last) that the job of the k-th handle was given.
ChunkOf(k) == <<body[dispatchCall.handles[k]].first, body[dispatchCall.handles[k]].last>>

\* ceil(jobCount / batchSize)
CeilDiv(jobCount, batchSize) == (jobCount + batchSize - 1) \div batchSize

\* C25: Dispatch(count, batchSize, fn) with count > 0 and batchSize > 0
\* returns ceil(count / batchSize) handles of distinct jobs whose chunks
\* [first, last) are in ascending order, each starting where the one before
\* ends, the first at 0 and the last ending at count, every chunk but the
\* last of length batchSize and the last of length 1..batchSize; with
\* count == 0 or batchSize == 0 it returns no handle and schedules nothing.
C25_DispatchChunksPartitionRange ==
    dispatchCall.pc = "returned" =>
       LET n == Len(dispatchCall.handles)
           count == dispatchCall.jobCount
           batchSize == dispatchCall.batchSize
       IN IF count = 0 \/ batchSize = 0
          THEN n = 0 /\ nextId = 1 /\ issued = {}
          ELSE /\ n = CeilDiv(count, batchSize)
               /\ issued = {dispatchCall.handles[k] : k \in 1..n}
               /\ Cardinality(issued) = n
               /\ ChunkOf(1)[1] = 0
               /\ ChunkOf(n)[2] = count
               /\ \A k \in 1..(n - 1) :
                     /\ ChunkOf(k)[2] = ChunkOf(k + 1)[1]
                     /\ ChunkOf(k)[2] - ChunkOf(k)[1] = batchSize
               /\ ChunkOf(n)[2] - ChunkOf(n)[1] \in 1..batchSize

\* Dispatch has returned three handles, the last of a chunk shorter than
\* batchSize, and a job of the call has already run.
C25_Witness ==
    /\ dispatchCall.pc = "returned"
    /\ Len(dispatchCall.handles) = 3
    /\ ChunkOf(3)[2] - ChunkOf(3)[1] < dispatchCall.batchSize
    /\ \E k \in 1..3 : execCount[dispatchCall.handles[k]] = 1

(***************************************************************************)
(* SpecSystems: AddSystem and Update called in any order on one world.     *)
(* A system is known by its name; a null unique_ptr is NullSystem.         *)
(***************************************************************************)
NullSystem == "null"
SystemNames == {"integration", "physics", "render"}

\* World::Update, the loop of lines 56-59 from the k-th system on: each
\* system's Update(world, dt) is recorded as <<system, dt>>.
RECURSIVE UpdateFrom(_, _, _, _)
UpdateFrom(systems, d, log, k) ==
    IF k > Len(systems) THEN log
    ELSE UpdateFrom(systems, d, Append(log, <<systems[k], d>>), k + 1)

\* AddSystem, lines 48-51: the system is put at the back unless it is null.
\* (A faulty variant puts it at the front.)
RegisterInFront(systems, system) ==
    IF system # NullSystem THEN <<system>> \o systems ELSE systems
Register(systems, system) ==
    IF system # NullSystem THEN Append(systems, system) ELSE systems

SystemCall(op, d) ==
    /\ wops < MaxSystemOps
    /\ wops' = wops + 1
    /\ lastCall' = [op |-> op, types |-> <<>>, id |-> 0, dt |-> d]
    /\ UNCHANGED <<m_nextEntity, m_entities, m_componentStores, shadow, viewed,
                   m_broadphaseAABBs, m_broadphaseIds, storesAtCall>>
    /\ WorldFrame

\* AddSystem(std::move(system)): a unique_ptr owns its system, so a system
\* is passed at most once; null may be passed any number of times.
AddSystem(system) ==
    /\ \A k \in DOMAIN added : added[k] = NullSystem \/ added[k] # system
    /\ SystemCall("AddSystem", 0)
    /\ m_systems' = Register(m_systems, system)
    /\ added' = Append(added, system)
    /\ UNCHANGED called

WorldUpdate(d) ==
    /\ SystemCall("Update", d)
    /\ called' = UpdateFrom(m_systems, d, <<>>, 1)
    /\ UNCHANGED <<m_systems, added>>

InitSystems == JsInit /\ DetIdle /\ PipeIdle /\ PhysIdle /\ ExtIdle

NextSystems ==
    \/ \E system \in SystemNames \cup {NullSystem} : AddSystem(system)
    \/ \E d \in {Lit(1, 4), Lit(1, 2)} : WorldUpdate(d)

SpecSystems == InitSystems /\ [][NextSystems]_vars

(***************************************************************************)
(* Claims about World::Update.                                             *)
(***************************************************************************)
\* The systems passed to AddSystem so far, nulls left out, in call order.
AddedSystems == SelectSeq(added, LAMBDA system : system # NullSystem)

\* C26: an Update(dt) calls Update(world, dt) once on every system that was
\* passed to AddSystem, in the order of the AddSystem calls, and on nothing
\* else; an AddSystem of a null system registers nothing.
C26_UpdateRunsSystemsInOrder ==
    /\ lastCall.op = "Update" =>
          called = [k \in 1..Len(AddedSystems) |-> <<AddedSystems[k], lastCall.dt>>]
    /\ m_systems = AddedSystems

\* An Update ran three systems that were added in an order that is not the
\* order of their names, with a null AddSystem in between.
C26_Witness ==
    /\ lastCall.op = "Update"
    /\ Len(called) = 3
    /\ called[1][1] = "render"
    /\ \E k \in 2..Len(added) : added[k] = NullSystem /\ k < Len(added)

(***************************************************************************)
(* Claims about the order of the queue.                                    *)
(***************************************************************************)
\* C27: the workers take the jobs in the order in which Schedule enqueued
\* them: in every step the queue changes only by a Schedule putting its job
\* at the back or by a worker taking the job at the front, and the job a
\* worker starts on is the one that was at the front.
C27_JobsTakenInQueueOrder ==
    [][/\ jobs' # jobs =>
             \/ \E t \in Clients : jobs' = Append(jobs, cid[t])
             \/ jobs # <<>> /\ jobs' = Tail(jobs)
       /\ \A w \in Workers :
             (wpc[w] = "idle" /\ wpc'[w] = "execute") =>
                jobs # <<>> /\ wjob'[w] = Head(jobs) /\ jobs' = Tail(jobs)]_vars

\* Job 2 was enqueued before job 1, and a worker has taken job 2 while job 1
\* is still queued.
C27_Witness ==
    /\ jobs = <<1>>
    /\ \E w \in Workers : wpc[w] = "execute" /\ wjob[w] = 2
    /\ execCount[1] = 0

(***************************************************************************)
(* Claims about what the job system keeps of a finished job.               *)
(***************************************************************************)
\* The worker that ran job h has left WrappedJob::Execute.
WorkerDoneWith(h) == execCount[h] > 0 /\ \A w \in Workers : wjob[w] # h

\* C30: once a job has completed and a Wait on its handle has returned or
\* raised, impl->states and impl->completedFailures hold no entry of its
\* id, whether the worker's cleanup or the waiter's came first and whether
\* or not the worker's cleanup has run yet; and once the worker is done
\* with a job that did not throw, they hold no entry of it although no
\* Wait was called.
C30_NoEntryOutlivesTheJob ==
    \A h \in Ids :
       /\ (completed[h] /\ wlog[h] # <<>>) =>
             h \notin states /\ h \notin completedFailures
       /\ (WorkerDoneWith(h) /\ ~BodyThrows(h)) =>
             h \notin states /\ h \notin completedFailures

\* A job threw, a Wait that held its state has raised and erased the
\* entries, and the worker has yet to run its own cleanup; the other job
\* did not throw, was never waited for and its worker is done.
C30_Witness ==
    \E h \in Ids, g \in Ids, w \in Workers :
       /\ h # g
       /\ BodyThrows(h) /\ wlog[h] # <<>> /\ wlog[h][1].via = "state"
       /\ wpc[w] = "cleanup" /\ wjob[w] = h
       /\ ~BodyThrows(g) /\ WorkerDoneWith(g) /\ started(g) = 0

(***************************************************************************)
(* SpecDtor: clients schedule jobs, then one thread destroys the JobSystem *)
(* while the workers run. No thread calls Schedule or Wait on a JobSystem  *)
(* whose destructor has begun.                                             *)
(***************************************************************************)
\* The worker loop, lines 90-98: the wait ends when running is false or the
\* queue is non-empty, and the worker returns when running is false and the
\* queue is empty.
\* (A faulty variant returns as soon as running is false.)
WorkerMayExitOnStop == ~running
WorkerMayExit == ~running /\ jobs = <<>>

\* The worker's thread function returns.
WorkerExit(w) ==
    /\ wpc[w] = "idle"
    /\ WorkerMayExit
    /\ wpc' = [wpc EXCEPT ![w] = "exited"]
    /\ UNCHANGED <<implVars, stateVars, jobVars, wjob, wfail, clientVars, obsVars>>
    /\ UNCHANGED <<detVars, pipeVars, physVars>>
    /\ UNCHANGED extVars

\* ~JobSystem, lines 120-124: running = false under impl->mutex, then
\* cv.notify_all(). Storing under the mutex means no worker is between its
\* test of the predicate and its sleep, so every worker sees the store at
\* its next test: the workers' waits are guards here.
DtorBegin ==
    /\ tpc = "off"
    /\ \A t \in Clients : cpc[t] = "idle"
    /\ running' = FALSE
    /\ tpc' = "join"
    /\ atStop' = {jobs[k] : k \in DOMAIN jobs}
    /\ UNCHANGED joined
    /\ UNCHANGED <<jsVars, detVars, pipeVars, physVars, dispatchCall, outOfRange, worldVars>>

\* Lines 126-132: worker.join() on each worker in turn; join returns when
\* the worker's thread function has returned.
DtorJoin(w) ==
    /\ tpc = "join"
    /\ w \notin joined
    /\ \A v \in Workers : v < w => v \in joined
    /\ wpc[w] = "exited"
    /\ joined' = joined \cup {w}
    /\ UNCHANGED <<running, tpc, atStop>>
    /\ UNCHANGED <<jsVars, detVars, pipeVars, physVars, dispatchCall, outOfRange, worldVars>>

\* The destructor returns.
DtorReturn ==
    /\ tpc = "join"
    /\ joined = Workers
    /\ tpc' = "returned"
    /\ UNCHANGED <<running, joined, atStop>>
    /\ UNCHANGED <<jsVars, detVars, pipeVars, physVars, dispatchCall, outOfRange, worldVars>>

InitDtor == Init

NextDtor ==
    \/ \E w \in Workers : WorkerStep(w)
    \/ \E w \in Workers : WorkerExit(w)
    \/ \E t \in Clients : tpc = "off" /\ ScheduleFunction(t)
    \/ \E t \in Clients : ScheduleEnqueue(t)
    \/ DtorBegin
    \/ \E w \in Workers : DtorJoin(w)
    \/ DtorReturn

SpecDtor == InitDtor /\ [][NextDtor]_vars

\* The workers and the destroying thread are scheduled fairly.
FairSpecDtor ==
    /\ SpecDtor
    /\ \A w \in Workers : WF_vars(WorkerStep(w)) /\ WF_vars(WorkerExit(w))
    /\ \A w \in Workers : WF_vars(DtorJoin(w))
    /\ WF_vars(DtorReturn)

(***************************************************************************)
(* Claims about ~JobSystem.                                                *)
(***************************************************************************)
\* C29: when ~JobSystem has returned every job that was enqueued before it
\* began, those still in the queue at that time included, has been executed
\* once, and every worker has been joined; a worker's thread returns only
\* with the stop flag set and the queue empty.
C29_DestructorDrainsTheQueue ==
    /\ tpc = "returned" =>
          /\ \A id \in issued : execCount[id] = 1 /\ completed[id]
          /\ atStop \subseteq issued
          /\ jobs = <<>>
          /\ joined = Workers
    /\ \A w \in Workers : wpc[w] = "exited" => (~running /\ jobs = <<>>)
    /\ \A w \in joined : wpc[w] = "exited"

\* The progress this takes for granted: once begun, the destructor returns.
DtorEventuallyReturns == (tpc = "join") ~> (tpc = "returned")

\* The destructor began with two jobs still in the queue, one of them
\* throwing, and has returned.
C29_Witness ==
    /\ tpc = "returned"
    /\ atStop = {1, 2}
    /\ \E id \in atStop : BodyThrows(id)
====
